---- MODULE Spec2Model ----
(***************************************************************************)
(* GitHub SyncMate (src/main.ts): the synchronization engine of the        *)
(* plugin as a state machine.                                              *)
(*                                                                         *)
(* Conventions of the model                                                *)
(*  - A text is the sequence of its lines (content.split('\n')), so a text  *)
(*    is never the empty sequence; <<>> stands for "no file" / ''.          *)
(*  - A path is the sequence of its tokens, "/" being the separator token. *)
(*  - A JavaScript Map is a function whose DOMAIN is the set of its keys.  *)
(*  - Date.now() differences are kept as ages counted in ticks of          *)
(*    TickSeconds seconds.                                                 *)
(***************************************************************************)
EXTENDS Integers, Sequences, FiniteSets, TLC

VARIABLES
    mLocal, mRemote, mOut, mPc,         \* mergeContent: inputs, result, position
    dPc,                \* deleteFileFromGitHub: position
    dI,                 \* deleteFileFromGitHub: loop index i
    dAttempts,          \* makeGitHubRequest: attempts of the call in progress
    dCurrentRemoteSha,  \* deleteFileFromGitHub: currentRemoteSha
    dRemoteSha,         \* the remote store: revision id at the path ("" when absent)
    dLast, dBefore,     \* the latest HTTP request sent and the one before it
    dDeletesSent,       \* number of DELETE requests sent by the call
    dMarked,            \* recentlyDeletedFromRemote.has(filePath)
    dChanges,           \* writes other clients made to the path so far
    rPc,                \* makeGitHubRequest: "idle", "sending", "returned", "raised"
    rLog,               \* makeGitHubRequest: the responses to the requests sent
    rOut,               \* makeGitHubRequest: what the call returned or raised
    mapIn,              \* path mapper: settings.syncPath, the path and its side
    mapOut,             \* path mapper: the path mapped, and mapped back
    mapPc,              \* path mapper: "idle", "input", "there", "back"
    settings,           \* GitHubSyncSettings: syncPath, conflictResolution
    vault,              \* the local store: path -> text (NoText: no file)
    activeFile,         \* app.workspace.getActiveFile()
    remote,             \* the remote branch: remote path -> text
    listed,             \* what the directory listing endpoint reports
    lagging,            \* TRUE: the listing lags behind this client's writes
    inProgress,         \* syncState.inProgress
    pendingFiles,       \* syncState.pendingFiles
    fileMetadata,       \* syncState.fileMetadata
    pendingDeletions,   \* syncState.pendingDeletions
    recentlyPushedFiles,        \* path -> age of the push
    recentlyDeletedFromRemote,  \* path -> age of the remote deletion
    lastActiveFile,     \* syncState.lastActiveFile
    remoteChangesPendingForActiveFiles,
    saved,              \* what savePluginData last wrote
    modal,              \* ConflictResolutionModal: "closed", "open", "dismissed"
    pc,                 \* position of the handler holding the guard
    handler,            \* "sync", "forcePull", "forcePush" or "none"
    syncType,           \* syncWithGitHub: syncType
    localFiles,         \* syncWithGitHub: localFiles
    remoteFiles,        \* remoteFiles / currentRemoteFiles
    conflicts,          \* detectConflicts: conflicts
    filesToPush,        \* performSync: filesToPush still to upload
    filesToPull,        \* performSync: filesToPull still to download
    todo,               \* paths the loop in progress has still to visit
    up,                 \* uploadFile: locals of the call in progress
    changesMade,        \* paths counted in pushedCount, pulledCount, ...
    failed,             \* syncWithGitHub: an exception reached the catch block
    active,             \* handlers between inProgress = true and finally
    lastCall,           \* outcome of the latest invocation
    hist                \* bookkeeping of the environment (edits, failures, ...)

mergeVars == <<mLocal, mRemote, mOut, mPc>>

delVars == <<dPc, dI, dAttempts, dCurrentRemoteSha, dRemoteSha, dLast, dBefore,
             dDeletesSent, dMarked, dChanges>>

worldVars == <<settings, vault, activeFile, remote, listed, lagging>>

stateVars == <<inProgress, pendingFiles, fileMetadata, pendingDeletions,
               recentlyPushedFiles, recentlyDeletedFromRemote, lastActiveFile,
               remoteChangesPendingForActiveFiles, saved>>

runVars == <<modal, pc, handler, syncType, localFiles, remoteFiles, conflicts,
             filesToPush, filesToPull, todo, up, changesMade, failed>>

ghostVars == <<active, lastCall, hist>>

syncVars == <<worldVars, stateVars, runVars, ghostVars>>

reqVars == <<rPc, rLog, rOut>>

mapVars == <<mapIn, mapOut, mapPc>>

vars == <<mLocal, mRemote, mOut, mPc, delVars, reqVars, mapVars, syncVars>>

----------------------------------------------------------------------------
(* Generic helpers *)

Range(s) == {s[i] : i \in 1..Len(s)}

NoText == <<>>

----------------------------------------------------------------------------
(* Strings as token sequences: the regular expressions and string methods   *)
(* the path code uses.                                                      *)

\* s.replace(/^\//, '')
StripLeadingSlash(s) == IF s # <<>> /\ Head(s) = "/" THEN Tail(s) ELSE s

\* s.replace(/\/$/, '')
StripTrailingSlash(s) ==
    IF s # <<>> /\ s[Len(s)] = "/" THEN SubSeq(s, 1, Len(s) - 1) ELSE s

\* s.replace(/^\/|\/$/g, ''): one leading and one trailing separator go.
StripSlashes(s) == StripTrailingSlash(StripLeadingSlash(s))

\* s.startsWith(prefix)
startsWith(s, prefix) ==
    Len(s) >= Len(prefix) /\ SubSeq(s, 1, Len(prefix)) = prefix

\* s.substring(n)
substring(s, n) == SubSeq(s, n + 1, Len(s))

----------------------------------------------------------------------------
(* Path mapper and tracking, src/main.ts 1768-1844 *)

MarkdownNames == {"x.md"}

isMarkdownFile(filename) ==
    filename # <<>> /\ filename[Len(filename)] \in MarkdownNames

shouldSyncFile(syncPath, filePath) ==
    LET normalizedSyncPath == StripSlashes(syncPath)
        normalizedLocalPath == StripLeadingSlash(filePath)
    IN  IF normalizedSyncPath = <<>>
        THEN isMarkdownFile(filePath)
        ELSE /\ startsWith(normalizedLocalPath, normalizedSyncPath \o <<"/">>)
             /\ isMarkdownFile(filePath)

shouldSyncPath(syncPath, path) ==
    LET normalizedSyncPath == StripSlashes(syncPath)
        normalizedPath == StripLeadingSlash(path)
    IN  IF normalizedSyncPath = <<>>
        THEN isMarkdownFile(path)
        ELSE /\ startsWith(normalizedPath, normalizedSyncPath \o <<"/">>)
             /\ isMarkdownFile(path)

\* getLocalPath as it would be if the prefix were never removed.
getLocalPathKeepsPrefix(syncPath, remotePath) == StripLeadingSlash(remotePath)

getLocalPath(syncPath, remotePath) ==
    LET normalizedSyncPath == StripSlashes(syncPath)
        normalizedRemotePath == StripLeadingSlash(remotePath)
        expectedPrefix == normalizedSyncPath \o <<"/">>
    IN  IF normalizedSyncPath = <<>> THEN normalizedRemotePath
        ELSE IF normalizedRemotePath = normalizedSyncPath THEN <<>>
        ELSE IF startsWith(normalizedRemotePath, expectedPrefix)
        THEN substring(normalizedRemotePath, Len(expectedPrefix))
        ELSE normalizedRemotePath

getRemotePath(syncPath, localPath) ==
    LET normalizedLocalPath == StripLeadingSlash(localPath)
        normalizedSyncPath == StripSlashes(syncPath)
    IN  IF normalizedSyncPath = <<>> THEN normalizedLocalPath
        ELSE IF normalizedLocalPath = <<>> THEN normalizedSyncPath
        ELSE normalizedSyncPath \o <<"/">> \o normalizedLocalPath

NoMapping == [there |-> <<>>, back |-> <<>>]

MapIdle ==
    /\ mapIn = [syncPath |-> <<>>, side |-> "none", path |-> <<>>]
    /\ mapOut = NoMapping
    /\ mapPc = "idle"

----------------------------------------------------------------------------
(* Checksum service and revision ids                                        *)

\* calculateChecksum, 646-663: SHA-256 of the text, taken as collision-free.
\* '' (no checksum yet) is <<>>.
calculateChecksum(content) == <<"sha256">> \o content

\* The sha GitHub reports for a file is its git blob id: a function of the
\* content alone (the value of `sha` in 1523, 1588, 1965, 2069).
BlobSha(content) == <<"blob">> \o content

----------------------------------------------------------------------------
(* The documents of the model                                               *)

NoPath == <<>>

\* Local paths x.md and n/x.md; on the remote also n/n/x.md.
LocalPathsU == { <<"x.md">>, <<"n", "/", "x.md">> }

RemotePathsU == LocalPathsU \cup { <<"n", "/", "n", "/", "x.md">> }

RemoteDirs == { <<"n">>, <<"n", "/", "n">> }

\* Fixed iteration order of the Maps and Sets keyed by path.
PathOrder == << <<"x.md">>, <<"n", "/", "x.md">> >>

SyncPaths == { <<>>, <<"n">> }

Policies == {"ask", "local", "remote", "merge"}

\* SyncType, 93: 'Auto Sync' and 'Startup Sync' take the branches of
\* 'Manual Sync', 'Save on Close Sync' those of 'Real-time sync' (684, 932).
SyncTypes == {"Manual Sync", "Real-time sync"}

\* The sync types of the runs nobody asked for: the interval timer (1465),
\* onload (306), the vault events (507-605) and the closing of a file (296).
AutomatedSyncTypes ==
    {"Auto Sync", "Startup Sync", "Real-time sync", "Save on Close Sync"}

\* T0 is the text of an earlier synchronization; the user writes T0 or T1,
\* other clients write T0 or T2.
T0 == <<"a">>

T1 == <<"a", "b">>

T2 == <<"a", "c">>

LocalTexts == {T0, T1}

RemoteTexts == {T0, T2}

----------------------------------------------------------------------------
(* Maps                                                                     *)

EmptyMap == [k \in {} |-> k]

Has(m, k) == k \in DOMAIN m

Put(m, k, v) == [x \in DOMAIN m \cup {k} |-> IF x = k THEN v ELSE m[x]]

Del(m, k) == [x \in DOMAIN m \ {k} |-> m[x]]

\* The first path of PathOrder that is in S (S is not empty).
FirstOf(S) == PathOrder[CHOOSE i \in 1..Len(PathOrder) :
                  /\ PathOrder[i] \in S
                  /\ \A j \in 1..(i - 1) : PathOrder[j] \notin S]

----------------------------------------------------------------------------
(* Grace periods, src/main.ts 113-114; an age a stands for a * 30 s.        *)

RECENTLY_PUSHED_GRACE_PERIOD_MS == 90000

RECENTLY_DELETED_GRACE_PERIOD_MS == 120000

ElapsedMs(age) == age * 30000

\* Ages stop growing once both windows are over.
AgeCap == (RECENTLY_DELETED_GRACE_PERIOD_MS \div 30000) + 1

Older(ages) == [k \in DOMAIN ages |-> IF ages[k] < AgeCap THEN ages[k] + 1 ELSE ages[k]]

\* 1558-1571 and 1206-1220: entries older than their window are dropped.
ExpirePushed(ages) ==
    [k \in {x \in DOMAIN ages : ~(ElapsedMs(ages[x]) > RECENTLY_PUSHED_GRACE_PERIOD_MS)}
        |-> ages[k]]

ExpireDeleted(ages) ==
    [k \in {x \in DOMAIN ages : ~(ElapsedMs(ages[x]) > RECENTLY_DELETED_GRACE_PERIOD_MS)}
        |-> ages[k]]

\* 1161-1162 and 1542
wasRecentlyPushedAt(ages, path) ==
    Has(ages, path) /\ ElapsedMs(ages[path]) < RECENTLY_PUSHED_GRACE_PERIOD_MS

\* 1533-1534
wasRecentlyDeletedAt(ages, path) ==
    Has(ages, path) /\ ElapsedMs(ages[path]) < RECENTLY_DELETED_GRACE_PERIOD_MS

----------------------------------------------------------------------------
(* Metadata, src/main.ts 82-89 (lastModified is never read by the engine)   *)

Metadata(sha, localChecksum, remoteContentChecksum) ==
    [githubBlobSha |-> sha, localChecksum |-> localChecksum,
     remoteContentChecksum |-> remoteContentChecksum, conflicted |-> FALSE]

\* 1405-1411: the part of the state savePluginData writes.
Snapshot(meta, deletions, deferred) ==
    [fileMetadata |-> meta, pendingDeletions |-> deletions,
     remoteChangesPendingForActiveFiles |-> deferred]

----------------------------------------------------------------------------
(* Local and remote listings                                                *)

\* getLocalFileStates, 1481-1502: path -> content of the tracked documents.
getLocalFileStates(syncPath, files) ==
    [p \in {q \in DOMAIN files : files[q] # NoText /\ shouldSyncFile(syncPath, q)}
        |-> files[p]]

\* The directory a remote path lies in (<<>> is the repository root).
DirOf(path) == IF Len(path) <= 1 THEN <<>> ELSE SubSeq(path, 1, Len(path) - 2)

Under(path, dir) == dir = <<>> \/ startsWith(path, dir \o <<"/">>)

DirExists(view, dir) ==
    dir = <<>> \/ \E f \in DOMAIN view : view[f] # NoText /\ Under(f, dir)

\* processRemoteDirectory, 1583-1605: the Markdown files of dir and, for each
\* sub-directory whose listing request succeeds, those below it.
RECURSIVE processRemoteDirectory(_, _, _)
processRemoteDirectory(view, dir, failedDirs) ==
    {f \in DOMAIN view : view[f] # NoText /\ DirOf(f) = dir /\ isMarkdownFile(f)}
    \cup UNION { processRemoteDirectory(view, d, failedDirs) :
                   d \in {e \in RemoteDirs : /\ DirOf(e) = dir
                                             /\ DirExists(view, e)
                                             /\ e \notin failedDirs} }

\* What the listing requests of getRemoteFileStates collect (1512-1526);
\* ok is FALSE when the top-level request fails.
RemoteStatesFromApi(view, syncPath, topFails, failedDirs) ==
    LET syncPathClean == StripSlashes(syncPath)
        found == processRemoteDirectory(view, syncPathClean, failedDirs)
    IN  IF topFails \/ ~DirExists(view, syncPathClean)
        THEN [ok |-> FALSE, files |-> EmptyMap]
        ELSE [ok |-> TRUE,
              files |-> [k \in {getLocalPath(syncPath, f) : f \in found} |->
                           LET f == CHOOSE g \in found : getLocalPath(syncPath, g) = k
                           IN  [path |-> f, sha |-> BlobSha(view[f])]]]

\* 1528-1555: recently deleted paths are hidden; for a recently pushed path
\* the sha of the metadata replaces the listed one.
FinalRemoteStates(api, meta, pushedAges, deletedAges) ==
    LET kept == {k \in DOMAIN api : ~wasRecentlyDeletedAt(deletedAges, k)}
    IN  [k \in kept |->
            IF /\ wasRecentlyPushedAt(pushedAges, k)
               /\ Has(meta, k)
               /\ meta[k].githubBlobSha # NoText
               /\ meta[k].githubBlobSha # api[k].sha
            THEN [path |-> api[k].path, sha |-> meta[k].githubBlobSha]
            ELSE api[k]]

NoRemoteStates == [ok |-> FALSE, files |-> EmptyMap]

----------------------------------------------------------------------------
(* Bounds of the environment                                                *)

MaxEdits == 3

MaxFailures == 1

MaxRefusals == 1

----------------------------------------------------------------------------
(* The engine after construction, src/main.ts 225-246                       *)

NoUpload == [path |-> NoPath, localContent |-> NoText, maxRetries |-> 0,
             currentAttempt |-> 0, chosenConflictResolution |-> "undefined",
             currentRemoteSha |-> NoText, remoteContentFromGitHub |-> NoText,
             contentToPush |-> NoText]

NoChanges == [pushed |-> {}, pulled |-> {}, deletedLocally |-> {},
              deletedRemotely |-> {}]

\* Bookkeeping next to the program's state.
\*   edits, failures, refusals: what the environment has done so far;
\*   dirty: the environment changed a store, failed a call or restarted the
\*          plugin since the latest handler started;
\*   quiet: the number (up to 2) of runs of syncWithGitHub that have completed
\*          in succession without an exception and with nothing of the above
\*          during or between them;
\*   localOnly, newLocal: the documents that were changed only locally, or
\*          were new local documents, when the latest run started;
\*   newRemote: the documents that were new remote documents when the latest
\*          run started;
\*   detected, graced: how the latest run classified the documents that were
\*          in a three-way difference, or within the grace period of a push;
\*   pushed: the age of the latest upload of each document;
\*   renamed: the documents renamed locally and not uploaded since, with the
\*          content they had when they were renamed;
\*   pushFailed: the documents whose latest upload ended with an exception;
\*   incomplete: a listing request of the latest getRemoteFileStates call of a
\*          command failed.
NoHistory == [edits |-> 0, failures |-> 0, refusals |-> 0, dirty |-> FALSE, quiet |-> 0,
              localOnly |-> {}, newLocal |-> EmptyMap, newRemote |-> EmptyMap,
              detected |-> {}, graced |-> {}, pushed |-> EmptyMap,
              renamed |-> EmptyMap, pushFailed |-> {},
              incomplete |-> FALSE]

\* The remote paths that map into the documents of the model.
RemoteDocs(syncPath) ==
    {r \in RemotePathsU : /\ Under(r, StripSlashes(syncPath))
                          /\ getLocalPath(syncPath, r) \in LocalPathsU}

\* No handler holds the guard.
RunIdle ==
    /\ modal = "closed"
    /\ pc = "idle"
    /\ handler = "none"
    /\ syncType = "none"
    /\ localFiles = EmptyMap
    /\ remoteFiles = NoRemoteStates
    /\ conflicts = EmptyMap
    /\ filesToPush = {}
    /\ filesToPull = EmptyMap
    /\ todo = {}
    /\ up = NoUpload
    /\ changesMade = NoChanges
    /\ failed = FALSE

\* onload: an empty syncState, then loadPluginData (1377-1401).
Loaded(data) ==
    /\ inProgress = FALSE
    /\ pendingFiles = {}
    /\ fileMetadata = data.fileMetadata
    /\ pendingDeletions = data.pendingDeletions
    /\ recentlyPushedFiles = EmptyMap
    /\ recentlyDeletedFromRemote = EmptyMap
    /\ lastActiveFile = NoPath
    /\ remoteChangesPendingForActiveFiles = data.remoteChangesPendingForActiveFiles
    /\ saved = data

\* The engine part of a state in which nothing of the sync engine moves.
SyncIdle ==
    /\ settings = [syncPath |-> <<>>, conflictResolution |-> "ask"]
    /\ vault = [p \in LocalPathsU |-> NoText]
    /\ activeFile = NoPath
    /\ remote = [r \in RemotePathsU |-> NoText]
    /\ listed = [r \in RemotePathsU |-> NoText]
    /\ lagging = FALSE
    /\ Loaded(Snapshot(EmptyMap, EmptyMap, {}))
    /\ RunIdle
    /\ active = 0
    /\ lastCall = <<"none", "none">>
    /\ hist = NoHistory

\* The plugin data an earlier session left: a record for each document of
\* `synced`, which that session left with the text T0 in both stores.
SyncedData(synced) ==
    Snapshot([p \in synced |-> Metadata(BlobSha(T0), calculateChecksum(T0),
                                         calculateChecksum(T0))],
             EmptyMap, {})

\* Initial states: the plugin has just been loaded.  An earlier session
\* synchronized some of the documents `docs` at the text T0; since then, with
\* the plugin not running, the user and other clients have left the texts
\* LocalTexts in the vault and RemoteTexts in the repository (NoText: no file).
InitSync(syncPaths, policies, lags, docs, history) ==
    /\ settings \in [syncPath : syncPaths, conflictResolution : policies]
    /\ vault \in [LocalPathsU -> LocalTexts \cup {NoText}]
    /\ remote \in [RemotePathsU -> RemoteTexts \cup {NoText}]
    /\ \A p \in LocalPathsU \ docs : vault[p] = NoText
    /\ \A r \in RemotePathsU :
          remote[r] # NoText =>
             /\ r \in RemoteDocs(settings.syncPath)
             /\ getLocalPath(settings.syncPath, r) \in docs
    /\ listed = remote
    /\ lagging \in lags
    /\ activeFile = NoPath
    /\ \E synced \in SUBSET {p \in docs : shouldSyncFile(settings.syncPath, p)} :
          Loaded(SyncedData(synced))
    /\ RunIdle
    /\ active = 0
    /\ lastCall = <<"none", "none">>
    /\ hist = history

----------------------------------------------------------------------------
(* Bounds of the model *)

MaxLines == 2

Lines == {"a", "b", "c"}

Texts == UNION {[1..n -> Lines] : n \in 1..MaxLines}

----------------------------------------------------------------------------
(* mergeContent, src/main.ts 1026-1047 *)

LocalMarker == "<<<<<<< local version"

MiddleMarker == "======="

RemoteMarker == ">>>>>>> remote version"

\* The lines of remoteContent that localLines.includes() rejects.
hasNewRemoteLines(localContent, remoteContent) ==
    \E i \in 1..Len(remoteContent) : remoteContent[i] \notin Range(localContent)

\* A plausible slip: the markers are dropped and mergedLines is returned.
mergeContentNoMarkers(localContent, remoteContent) ==
    localContent \o SelectSeq(remoteContent, LAMBDA l : l \notin Range(localContent))

mergeContent(localContent, remoteContent) ==
    IF hasNewRemoteLines(localContent, remoteContent)
    THEN <<LocalMarker>> \o localContent \o <<MiddleMarker>> \o remoteContent
             \o <<RemoteMarker, "">>
    ELSE localContent

----------------------------------------------------------------------------
(* makeGitHubRequest, src/main.ts 1700-1765: one HTTP exchange and the retry *)
(* decision. A response is [status, message]; status 0 is a transport error  *)
(* (requestUrl rejects without a status).                                    *)

retries == 3

Response(status, message) == [status |-> status, message |-> message]

NoRequest == [method |-> "none", sha |-> "", status |-> 0]

\* isRetryableError as it would be if every HTTP error were retried.
isRetryableErrorAnyStatus(error) ==
    \/ error.message \in {"net::ERR_TIMED_OUT", "Failed to fetch"}
    \/ error.status >= 400

isRetryableError(error) ==
    \/ error.message \in {"net::ERR_TIMED_OUT", "Failed to fetch"}
    \/ error.status \in {500, 502, 503, 504, 409}

\* The retry decision as it would be if the last attempt were retried too.
requestRetriedOnceMore(attempts, error) ==
    attempts <= retries /\ isRetryableError(error)

\* attempts counts the request just sent; TRUE when the loop sends another one.
requestRetried(attempts, error) ==
    attempts < retries /\ isRetryableError(error)

\* Failures the network or the server may answer with, whatever the store holds.
InjectedFailures ==
    { Response(500, "GitHub API Error"), Response(401, "GitHub API Error"),
      Response(409, "GitHub API Error"), Response(0, "Failed to fetch"),
      Response(0, "net::ERR_CONNECTION_REFUSED") }

\* 1726-1727: requestUrl answered and the status is below 400.
isSuccess(response) == response.status >= 200 /\ response.status < 400

\* What requestUrl can answer with or reject with: a success, an HTTP error
\* status, or a transport error (status 0).
RequestAnswers ==
    { Response(200, ""), Response(201, ""),
      Response(401, "GitHub API Error"), Response(404, "GitHub API Error"),
      Response(409, "GitHub API Error"), Response(422, "GitHub API Error"),
      Response(500, "GitHub API Error"), Response(502, "GitHub API Error"),
      Response(503, "GitHub API Error"), Response(504, "GitHub API Error"),
      Response(0, "Failed to fetch"), Response(0, "net::ERR_TIMED_OUT"),
      Response(0, "net::ERR_CONNECTION_REFUSED") }

ReqIdle ==
    /\ rPc = "idle"
    /\ rLog = <<>>
    /\ rOut = Response(0, "")

----------------------------------------------------------------------------
(* deleteFileFromGitHub, src/main.ts 1247-1313, request by request *)

maxRetries == 3

MaxRemoteChanges == 1

RevisionIds == {"s1", "s2"}

DelIdle ==
    /\ dPc = "idle"
    /\ dI = 0
    /\ dAttempts = 0
    /\ dCurrentRemoteSha = ""
    /\ dRemoteSha = ""
    /\ dLast = NoRequest
    /\ dBefore = NoRequest
    /\ dDeletesSent = 0
    /\ dMarked = FALSE
    /\ dChanges = 0

MergeIdle ==
    /\ mLocal = NoText
    /\ mRemote = NoText
    /\ mOut = NoText
    /\ mPc = "idle"

InitDelete ==
    /\ dPc = "fetch"
    /\ dI = 0
    /\ dAttempts = 0
    /\ dCurrentRemoteSha = ""
    /\ dRemoteSha \in RevisionIds \cup {""}
    /\ dLast = NoRequest
    /\ dBefore = NoRequest
    /\ dDeletesSent = 0
    /\ dMarked = FALSE
    /\ dChanges = 0
    /\ MergeIdle
    /\ ReqIdle
    /\ MapIdle
    /\ SyncIdle

\* What the contents endpoint answers to GET for the path.
GetAnswers ==
    (IF dRemoteSha = "" THEN {Response(404, "Not Found")} ELSE {Response(200, "")})
        \cup InjectedFailures

\* What it answers to DELETE carrying sha.
DeleteAnswers(sha) ==
    (IF dRemoteSha = "" THEN {Response(404, "Not Found")}
     ELSE IF dRemoteSha # sha THEN {Response(409, "does not match")}
     ELSE {Response(200, "")})
        \cup InjectedFailures

\* What no step of the delete protocol touches.
DelFrame == UNCHANGED <<mergeVars, reqVars, mapVars, syncVars>>

Sent(method, sha, status) ==
    /\ dBefore' = dLast
    /\ dLast' = [method |-> method, sha |-> sha, status |-> status]

\* The pre-check GET answered 2xx (1256-1262, 1277-1281).
DeleteFetchOk ==
    /\ DelFrame
    /\ dPc = "fetch"
    /\ Response(200, "") \in GetAnswers
    /\ Sent("GET", dRemoteSha, 200)
    /\ dCurrentRemoteSha' = dRemoteSha
    /\ dAttempts' = 0
    /\ dPc' = "delete"
    /\ UNCHANGED <<dI, dRemoteSha, dDeletesSent, dMarked, dChanges>>

\* The pre-check GET failed (1263-1275).
DeleteFetchFail ==
    /\ DelFrame
    /\ dPc = "fetch"
    /\ \E r \in GetAnswers :
        /\ r.status # 200
        /\ Sent("GET", "", r.status)
        /\ IF requestRetried(dAttempts + 1, r)
           THEN /\ dAttempts' = dAttempts + 1
                /\ UNCHANGED <<dPc, dI, dMarked>>
           ELSE /\ dAttempts' = 0
                /\ IF r.status = 404
                   THEN dPc' = "success" /\ dMarked' = TRUE /\ UNCHANGED dI
                   ELSE IF dI < maxRetries - 1
                   THEN dPc' = "fetch" /\ dI' = dI + 1 /\ UNCHANGED dMarked
                   ELSE dPc' = "error" /\ UNCHANGED <<dI, dMarked>>
    /\ UNCHANGED <<dCurrentRemoteSha, dRemoteSha, dDeletesSent, dChanges>>

\* One DELETE request and what follows it (1283-1311).
DeleteSend ==
    /\ DelFrame
    /\ dPc = "delete"
    /\ \E r \in DeleteAnswers(dCurrentRemoteSha) :
        /\ Sent("DELETE", dCurrentRemoteSha, r.status)
        /\ dDeletesSent' = dDeletesSent + 1
        /\ dRemoteSha' = IF r.status = 200 THEN "" ELSE dRemoteSha
        /\ IF r.status = 200
           THEN dPc' = "success" /\ dMarked' = TRUE /\ dAttempts' = 0 /\ UNCHANGED dI
           ELSE IF requestRetried(dAttempts + 1, r)
           THEN dAttempts' = dAttempts + 1 /\ UNCHANGED <<dPc, dI, dMarked>>
           ELSE /\ dAttempts' = 0
                /\ IF r.status = 409 /\ dI < maxRetries - 1
                   THEN dPc' = "fetch" /\ dI' = dI + 1 /\ UNCHANGED dMarked
                   ELSE IF r.status = 404
                   THEN dPc' = "success" /\ dMarked' = TRUE /\ UNCHANGED dI
                   ELSE dPc' = "error" /\ UNCHANGED <<dI, dMarked>>
    /\ UNCHANGED <<dCurrentRemoteSha, dChanges>>

\* Another client rewrites or removes the file while the protocol runs.
DeleteRemoteChanges ==
    /\ DelFrame
    /\ dPc \in {"fetch", "delete"}
    /\ dChanges < MaxRemoteChanges
    /\ \E s \in (RevisionIds \cup {""}) \ {dRemoteSha} : dRemoteSha' = s
    /\ dChanges' = dChanges + 1
    /\ UNCHANGED <<dPc, dI, dAttempts, dCurrentRemoteSha, dLast, dBefore,
                   dDeletesSent, dMarked>>

NextDelete ==
    \/ DeleteFetchOk
    \/ DeleteFetchFail
    \/ DeleteSend
    \/ DeleteRemoteChanges

SpecDelete == InitDelete /\ [][NextDelete]_vars

\* C8 - Deletion precondition: every DELETE request sent is immediately
\* preceded by a successful fetch of the path's revision id and carries that
\* id (so a DELETE answered 409 is never followed directly by another
\* DELETE); at most maxRetries DELETE requests are sent; and the protocol
\* reports success only after a DELETE succeeded or a 404 was seen.
DeletePrecondition ==
    /\ dLast.method = "DELETE" =>
          /\ dBefore.method = "GET"
          /\ dBefore.status = 200
          /\ dLast.sha = dBefore.sha
    /\ dDeletesSent <= maxRetries
    /\ dPc = "success" => dLast.status \in {200, 404}

----------------------------------------------------------------------------
(* One call of makeGitHubRequest with the default retries, whatever the     *)
(* endpoint answers; the timers of the delays between attempts expire.      *)

InitRequest ==
    /\ rPc = "sending"
    /\ rLog = <<>>
    /\ rOut = Response(0, "")
    /\ MergeIdle
    /\ DelIdle
    /\ MapIdle
    /\ SyncIdle

\* 1722-1762: one pass of the loop.  attempts is Len(rLog) once the request
\* of the pass is sent.
RequestAttempt ==
    /\ rPc = "sending"
    /\ \E response \in RequestAnswers :
          /\ rLog' = Append(rLog, response)
          /\ IF isSuccess(response)
             THEN rPc' = "returned" /\ rOut' = response
             ELSE IF requestRetried(Len(rLog) + 1, response)
             THEN UNCHANGED <<rPc, rOut>>
             ELSE rPc' = "raised" /\ rOut' = response
    /\ UNCHANGED <<mergeVars, delVars, mapVars, syncVars>>

NextRequest == RequestAttempt

SpecRequest == InitRequest /\ [][NextRequest]_vars /\ WF_vars(RequestAttempt)

\* C12 (remote-client retry bound): a call sends at most `retries` requests,
\* sends a further request only after a failure classified retryable, returns
\* the first successful response, raises the last error when every attempt
\* failed, and always ends.
RetryBound ==
    /\ [](/\ Len(rLog) <= retries
          /\ \A i \in 1..(Len(rLog) - 1) :
                \/ rLog[i].message \in {"net::ERR_TIMED_OUT", "Failed to fetch"}
                \/ rLog[i].status \in {500, 502, 503, 504, 409}
          /\ rPc = "sending" => Len(rLog) < retries
          /\ rPc = "returned" => rOut = rLog[Len(rLog)] /\ isSuccess(rOut)
          /\ rPc = "raised" => rOut = rLog[Len(rLog)] /\ ~isSuccess(rOut))
    /\ <>(rPc \in {"returned", "raised"})

\* Two retryable failures, then a success at the last attempt.
RetryBoundWitness ==
    /\ rPc = "returned"
    /\ Len(rLog) = retries
    /\ rLog[1].status = 409
    /\ rLog[2].message = "Failed to fetch"

\* C13 (non-retryable failures propagate): an attempt that fails with an
\* outcome not classified retryable is the last request of the call, and the
\* error with its status is what the call raises.
NonRetryablePropagates ==
    \A i \in 1..Len(rLog) :
       rLog[i].status \in {401, 404, 422} =>
          /\ i = Len(rLog)
          /\ rPc = "raised"
          /\ rOut.status = rLog[i].status

\* A 404 after a retried 500.
NonRetryablePropagatesWitness ==
    /\ rPc = "raised"
    /\ Len(rLog) = 2
    /\ rLog[1].status = 500
    /\ rLog[2].status = 404

----------------------------------------------------------------------------
(* The path mapper alone: a path is mapped to the other side and back, for  *)
(* every sync path written with or without a leading and a trailing         *)
(* separator and every path of at most MaxDepth names.                      *)

MaxDepth == 2

PathNames == {"n", "m", "x.md"}

\* The paths of k names: names[1] / names[2] / ... / names[k].
PathsOfDepth(k) ==
    { [i \in 1..(2 * k - 1) |-> IF i % 2 = 1 THEN names[(i + 1) \div 2] ELSE "/"] :
         names \in [1..k -> PathNames] }

WellFormedPaths == UNION { PathsOfDepth(k) : k \in 1..MaxDepth }

\* What the user may have typed as the sync path.
MapSyncPaths ==
    {<<>>, <<"/">>} \cup
    { lead \o dir \o trail : lead \in {<<>>, <<"/">>}, dir \in WellFormedPaths,
                             trail \in {<<>>, <<"/">>} }

\* A remote path is under the sync path: it is what the listing of the sync
\* path, or of a directory below it, returns.
UnderSyncPath(syncPath, remotePath) ==
    \/ StripSlashes(syncPath) = <<>>
    \/ startsWith(remotePath, StripSlashes(syncPath) \o <<"/">>)

InitMap ==
    /\ mapIn \in [syncPath : MapSyncPaths, side : {"local", "remote"}, path : WellFormedPaths]
    /\ mapIn.side = "remote" => UnderSyncPath(mapIn.syncPath, mapIn.path)
    /\ mapOut = NoMapping
    /\ mapPc = "input"
    /\ MergeIdle
    /\ DelIdle
    /\ ReqIdle
    /\ SyncIdle

MapThere ==
    /\ mapPc = "input"
    /\ mapOut' = [mapOut EXCEPT !.there =
                     IF mapIn.side = "local" THEN getRemotePath(mapIn.syncPath, mapIn.path)
                     ELSE getLocalPath(mapIn.syncPath, mapIn.path)]
    /\ mapPc' = "there"
    /\ UNCHANGED <<mapIn, mergeVars, delVars, reqVars, syncVars>>

MapBack ==
    /\ mapPc = "there"
    /\ mapOut' = [mapOut EXCEPT !.back =
                     IF mapIn.side = "local" THEN getLocalPath(mapIn.syncPath, mapOut.there)
                     ELSE getRemotePath(mapIn.syncPath, mapOut.there)]
    /\ mapPc' = "back"
    /\ UNCHANGED <<mapIn, mergeVars, delVars, reqVars, syncVars>>

NextMap == MapThere \/ MapBack

SpecMap == InitMap /\ [][NextMap]_vars

\* C18 (path mapper round trip): a local path mapped to the remote side and
\* back is itself, a remote path under the sync path mapped to the local side
\* and back is itself, and with an empty sync path each mapping alone is the
\* identity.
RoundTrip ==
    /\ mapPc = "back" => mapOut.back = mapIn.path
    /\ mapPc \in {"there", "back"} /\ mapIn.syncPath = <<>> => mapOut.there = mapIn.path

\* A local path that begins with the name of the sync path, itself written
\* with both separators, has gone there and back.
RoundTripWitness ==
    /\ mapPc = "back"
    /\ mapIn.side = "local"
    /\ mapIn.syncPath = <<"/", "n", "/">>
    /\ mapIn.path = <<"n", "/", "x.md">>
    /\ mapOut.there = <<"n", "/", "n", "/", "x.md">>

----------------------------------------------------------------------------
(* Specification of mergeContent alone: the inputs are drawn from Texts *)

MergeFrame == UNCHANGED <<delVars, reqVars, mapVars, syncVars>>

InitMerge ==
    /\ mLocal \in Texts
    /\ mRemote \in Texts
    /\ mOut = NoText
    /\ mPc = "call"
    /\ DelIdle
    /\ ReqIdle
    /\ MapIdle
    /\ SyncIdle

MergeCall ==
    /\ mPc = "call"
    /\ mOut' = mergeContent(mLocal, mRemote)
    /\ mPc' = "returned"
    /\ UNCHANGED <<mLocal, mRemote>>
    /\ MergeFrame

NextMerge == MergeCall

SpecMerge == InitMerge /\ [][NextMerge]_vars

----------------------------------------------------------------------------
(* C9 - Merge law: mergeContent returns the local content unchanged exactly *)
(* when every line of the remote content occurs among the local lines;      *)
(* otherwise the output carries the three conflict markers, every local     *)
(* line and every remote line.                                              *)
MergeLaw ==
    mPc = "returned" =>
        /\ (mOut = mLocal) <=> (Range(mRemote) \subseteq Range(mLocal))
        /\ ~(Range(mRemote) \subseteq Range(mLocal)) =>
              /\ {LocalMarker, MiddleMarker, RemoteMarker} \subseteq Range(mOut)
              /\ Range(mLocal) \subseteq Range(mOut)
              /\ Range(mRemote) \subseteq Range(mOut)

\* local [a,b], remote [a,c]: merged with markers, b and c.
MergeLawWitness ==
    /\ mPc = "returned"
    /\ mLocal = <<"a", "b">>
    /\ mRemote = <<"a", "c">>
    /\ mOut # mLocal
    /\ {"b", "c", LocalMarker} \subseteq Range(mOut)

----------------------------------------------------------------------------
(* The environment: the user's vault operations with the event handlers     *)
(* they trigger (420-444), other clients of the repository, the clock.      *)

OtherFrame == UNCHANGED <<mergeVars, delVars, reqVars, mapVars>>

Edited == [hist EXCEPT !.edits = @ + 1, !.dirty = TRUE, !.quiet = 0]

\* updateFileMetadata, 611-643
updateFileMetadata(meta, path, content) ==
    IF Has(meta, path)
    THEN [meta EXCEPT ![path].localChecksum = calculateChecksum(content),
                      ![path].conflicted = FALSE]
    ELSE Put(meta, path, Metadata(NoText, calculateChecksum(content), NoText))

\* onFileModified, 483-512
onFileModified(path, content) ==
    LET meta == updateFileMetadata(fileMetadata, path, content)
    IN  /\ fileMetadata' = meta
        /\ pendingFiles' = IF calculateChecksum(content) # meta[path].remoteContentChecksum
                           THEN pendingFiles \cup {path}
                           ELSE pendingFiles \ {path}
        /\ saved' = Snapshot(meta, pendingDeletions, remoteChangesPendingForActiveFiles)
        /\ UNCHANGED <<pendingDeletions, remoteChangesPendingForActiveFiles>>

\* onFileCreated, 515-544
onFileCreated(path, content) ==
    LET meta == updateFileMetadata(fileMetadata, path, content)
    IN  /\ fileMetadata' = meta
        /\ pendingFiles' = IF meta[path].localChecksum # meta[path].remoteContentChecksum
                           THEN pendingFiles \cup {path}
                           ELSE pendingFiles \ {path}
        /\ saved' = Snapshot(meta, pendingDeletions, remoteChangesPendingForActiveFiles)
        /\ UNCHANGED <<pendingDeletions, remoteChangesPendingForActiveFiles>>

\* onFileDeleted, 547-566
onFileDeleted(path) ==
    LET dels == IF Has(fileMetadata, path) /\ fileMetadata[path].githubBlobSha # NoText
                THEN Put(pendingDeletions, path, fileMetadata[path].githubBlobSha)
                ELSE pendingDeletions
        meta == Del(fileMetadata, path)
        deferred == remoteChangesPendingForActiveFiles \ {path}
    IN  /\ pendingDeletions' = dels
        /\ fileMetadata' = meta
        /\ pendingFiles' = pendingFiles \ {path}
        /\ remoteChangesPendingForActiveFiles' = deferred
        /\ saved' = Snapshot(meta, dels, deferred)

\* onFileRenamed, 569-608
onFileRenamed(path, oldPath, content) ==
    LET hasOld == Has(fileMetadata, oldPath)
        dels == IF hasOld /\ fileMetadata[oldPath].githubBlobSha # NoText
                THEN Put(pendingDeletions, oldPath, fileMetadata[oldPath].githubBlobSha)
                ELSE pendingDeletions
        newMetadata == Metadata(IF hasOld THEN fileMetadata[oldPath].githubBlobSha ELSE NoText,
                                calculateChecksum(content),
                                IF hasOld THEN fileMetadata[oldPath].remoteContentChecksum
                                ELSE NoText)
        meta == Put(Del(fileMetadata, oldPath), path, newMetadata)
        deferred == remoteChangesPendingForActiveFiles \ {oldPath}
    IN  /\ pendingDeletions' = dels
        /\ fileMetadata' = meta
        /\ pendingFiles' = (pendingFiles \ {oldPath}) \cup {path}
        /\ remoteChangesPendingForActiveFiles' = deferred
        /\ saved' = Snapshot(meta, dels, deferred)

HandlerFrame == UNCHANGED <<pendingFiles, fileMetadata, pendingDeletions,
                            remoteChangesPendingForActiveFiles, saved>>

EnvFrame == UNCHANGED <<settings, inProgress, recentlyPushedFiles, recentlyDeletedFromRemote,
                        lastActiveFile, runVars, active, lastCall>>

\* The user saves new content into an existing file.
LocalModify ==
    /\ hist.edits < MaxEdits
    /\ \E p \in LocalPathsU, t \in LocalTexts :
          /\ vault[p] # NoText /\ t # vault[p]
          /\ vault' = [vault EXCEPT ![p] = t]
          /\ IF shouldSyncFile(settings.syncPath, p) THEN onFileModified(p, t) ELSE HandlerFrame
    /\ hist' = Edited
    /\ UNCHANGED <<activeFile, remote, listed, lagging>>
    /\ EnvFrame /\ OtherFrame

\* The user creates a file while no handler runs.
LocalCreate ==
    /\ handler = "none"
    /\ hist.edits < MaxEdits
    /\ \E p \in LocalPathsU, t \in LocalTexts :
          /\ vault[p] = NoText
          /\ vault' = [vault EXCEPT ![p] = t]
          /\ IF shouldSyncFile(settings.syncPath, p) THEN onFileCreated(p, t) ELSE HandlerFrame
    /\ hist' = Edited
    /\ UNCHANGED <<activeFile, remote, listed, lagging>>
    /\ EnvFrame /\ OtherFrame

\* The user deletes a file that is not open in the editor, while no handler
\* runs.
FileDeletedByUser ==
    /\ hist.edits < MaxEdits
    /\ \E p \in LocalPathsU :
          /\ vault[p] # NoText /\ p # activeFile
          /\ vault' = [vault EXCEPT ![p] = NoText]
          /\ IF shouldSyncFile(settings.syncPath, p) THEN onFileDeleted(p) ELSE HandlerFrame
    /\ hist' = Edited
    /\ UNCHANGED <<activeFile, remote, listed, lagging>>
    /\ EnvFrame /\ OtherFrame

LocalDelete ==
    /\ handler = "none"
    /\ FileDeletedByUser

\* The user renames (moves) a file while no handler runs.
LocalRename ==
    /\ handler = "none"
    /\ hist.edits < MaxEdits
    /\ \E old \in LocalPathsU, new \in LocalPathsU :
          /\ old # new /\ vault[old] # NoText /\ vault[new] = NoText
          /\ vault' = [vault EXCEPT ![old] = NoText, ![new] = vault[old]]
          /\ activeFile' = IF activeFile = old THEN new ELSE activeFile
          /\ IF shouldSyncFile(settings.syncPath, new) \/ shouldSyncPath(settings.syncPath, old)
             THEN onFileRenamed(new, old, vault[old])
             ELSE HandlerFrame
          /\ hist' = [Edited EXCEPT !.renamed = Put(Del(@, old), new, vault[old])]
    /\ UNCHANGED <<remote, listed, lagging>>
    /\ EnvFrame /\ OtherFrame

\* Another client commits a new version of a document, or removes it.
RemoteWrite ==
    /\ hist.edits < MaxEdits
    /\ \E r \in RemoteDocs(settings.syncPath), t \in RemoteTexts \cup {NoText} :
          /\ t # remote[r]
          /\ remote' = [remote EXCEPT ![r] = t]
          /\ listed' = [listed EXCEPT ![r] = t]
    /\ hist' = Edited
    /\ UNCHANGED <<vault, activeFile, lagging>>
    /\ HandlerFrame /\ EnvFrame /\ OtherFrame

\* The listing endpoint catches up with the branch.
ListingCatchesUp ==
    /\ listed # remote
    /\ listed' = remote
    /\ UNCHANGED <<settings, vault, activeFile, remote, lagging, stateVars, runVars, ghostVars>>
    /\ OtherFrame

\* 30 seconds pass.
Tick ==
    /\ \/ Older(recentlyPushedFiles) # recentlyPushedFiles
       \/ Older(recentlyDeletedFromRemote) # recentlyDeletedFromRemote
       \/ Older(hist.pushed) # hist.pushed
    /\ recentlyPushedFiles' = Older(recentlyPushedFiles)
    /\ recentlyDeletedFromRemote' = Older(recentlyDeletedFromRemote)
    /\ hist' = [hist EXCEPT !.pushed = Older(@)]
    /\ UNCHANGED <<worldVars, inProgress, pendingFiles, fileMetadata, pendingDeletions,
                   lastActiveFile, remoteChangesPendingForActiveFiles, saved,
                   runVars, active, lastCall>>
    /\ OtherFrame

----------------------------------------------------------------------------
(* Remote calls                                                             *)

\* A remote call may fail while the environment has failures left.
FailChoices == IF hist.failures < MaxFailures THEN BOOLEAN ELSE {FALSE}

Failing(fails) == IF fails THEN [hist EXCEPT !.failures = @ + 1, !.dirty = TRUE] ELSE hist

----------------------------------------------------------------------------
(* The cases the properties are about                                       *)

\* The document is changed only locally: its content is not the one the
\* metadata records as the remote content, and the revision of the branch is
\* the recorded one.
ChangedOnlyLocally(path) ==
    /\ shouldSyncFile(settings.syncPath, path)
    /\ vault[path] # NoText
    /\ Has(fileMetadata, path)
    /\ calculateChecksum(vault[path]) # fileMetadata[path].remoteContentChecksum
    /\ remote[getRemotePath(settings.syncPath, path)] # NoText
    /\ BlobSha(remote[getRemotePath(settings.syncPath, path)]) = fileMetadata[path].githubBlobSha

\* The document exists locally, was never associated with a remote revision,
\* has no pending deletion, and the branch has no file at its path.
NewLocally(path) ==
    /\ shouldSyncFile(settings.syncPath, path)
    /\ vault[path] # NoText
    /\ ~Has(fileMetadata, path) \/ fileMetadata[path].githubBlobSha = NoText
    /\ ~Has(pendingDeletions, path)
    /\ remote[getRemotePath(settings.syncPath, path)] = NoText

\* The branch holds a file for the path, the vault has none and no deletion
\* of it is pending.
NewRemotely(path) ==
    /\ vault[path] = NoText
    /\ ~Has(pendingDeletions, path)
    /\ remote[getRemotePath(settings.syncPath, path)] # NoText

\* The three-way difference of detectConflicts: the recorded remote content
\* hash H0, the local hash H1 and the hash H2 of the content the branch holds
\* are three different hashes.
ThreeWay(path) ==
    /\ Has(localFiles, path)
    /\ Has(fileMetadata, path)
    /\ fileMetadata[path].remoteContentChecksum # NoText
    /\ remote[getRemotePath(settings.syncPath, path)] # NoText
    /\ LET H0 == fileMetadata[path].remoteContentChecksum
           H1 == calculateChecksum(localFiles[path])
           H2 == calculateChecksum(remote[getRemotePath(settings.syncPath, path)])
       IN  H1 # H0 /\ H2 # H0 /\ H2 # H1

\* The document was uploaded less than 90 seconds ago and the listing does
\* not yet show the file the branch holds.
InGrace(path) ==
    /\ Has(hist.pushed, path)
    /\ ElapsedMs(hist.pushed[path]) < RECENTLY_PUSHED_GRACE_PERIOD_MS
    /\ remote[getRemotePath(settings.syncPath, path)] # NoText
    /\ listed[getRemotePath(settings.syncPath, path)]
          # remote[getRemotePath(settings.syncPath, path)]

\* What the bookkeeping keeps when a run of syncWithGitHub starts.
RunStarts ==
    [hist EXCEPT !.dirty = FALSE,
                 !.localOnly = {q \in LocalPathsU : ChangedOnlyLocally(q)},
                 !.newLocal = [q \in {x \in LocalPathsU : NewLocally(x)} |-> vault[q]],
                 !.newRemote = [q \in {x \in LocalPathsU : NewRemotely(x)} |->
                                   remote[getRemotePath(settings.syncPath, q)]],
                 !.detected = {},
                 !.graced = {}]

\* ... and when forcePullFromGitHub or forcePushToGitHub starts.
ForceStarts ==
    [hist EXCEPT !.dirty = FALSE, !.quiet = 0, !.localOnly = {}, !.newLocal = EmptyMap,
                 !.newRemote = EmptyMap, !.detected = {}, !.graced = {}]

\* What the listing shows after this client wrote the branch into `written`.
WriteView(written) == IF lagging THEN listed ELSE written

\* getRemoteFileStates, 1505-1580
getRemoteFileStates(topFails, failedDirs) ==
    LET api == RemoteStatesFromApi(listed, settings.syncPath, topFails, failedDirs)
    IN  IF api.ok
        THEN [ok |-> TRUE,
              files |-> FinalRemoteStates(api.files, fileMetadata, recentlyPushedFiles,
                                          recentlyDeletedFromRemote)]
        ELSE NoRemoteStates

\* The sub-directories whose listing request a call can see fail.
VisitedDirs ==
    {d \in RemoteDirs : /\ DirExists(listed, d)
                        /\ d # StripSlashes(settings.syncPath)
                        /\ Under(d, StripSlashes(settings.syncPath))}

ListingFailures ==
    IF hist.failures < MaxFailures
    THEN {[top |-> FALSE, dirs |-> {}], [top |-> TRUE, dirs |-> {}]}
         \cup {[top |-> FALSE, dirs |-> {d}] : d \in VisitedDirs}
    ELSE {[top |-> FALSE, dirs |-> {}]}

----------------------------------------------------------------------------
(* The 'active-leaf-change' handler, 446-479                                *)

\* The user opens another document, or closes the open one.  When the document
\* left behind has a deferred pull, the handler lists the remote files and
\* downloads it (459-474); the handler is taken as a whole.
ActiveLeafChange ==
    /\ \E currentActiveFile \in {NoPath} \cup {p \in LocalPathsU : vault[p] # NoText} :
          /\ currentActiveFile # activeFile
          /\ activeFile' = currentActiveFile
          /\ lastActiveFile' = currentActiveFile
    /\ LET previous == lastActiveFile
       IN  IF /\ previous # NoPath
              /\ previous # activeFile'
              /\ previous \in remoteChangesPendingForActiveFiles
           THEN \E listFails \in FailChoices, getFails \in FailChoices :
                   LET states == getRemoteFileStates(listFails, {})
                       found == states.ok /\ Has(states.files, previous)
                       fileInfo == states.files[previous]
                       remoteContent == remote[fileInfo.path]
                       checksum == calculateChecksum(remoteContent)
                       meta == Put(fileMetadata, previous,
                                   Metadata(fileInfo.sha, checksum, checksum))
                       deferred == remoteChangesPendingForActiveFiles \ {previous}
                   IN  /\ hist' = Failing(listFails \/ (found /\ getFails))
                       /\ IF ~found
                          THEN /\ remoteChangesPendingForActiveFiles' = deferred
                               /\ UNCHANGED <<vault, fileMetadata, pendingFiles, saved>>
                          ELSE IF getFails \/ remoteContent = NoText
                          THEN UNCHANGED <<vault, fileMetadata, pendingFiles,
                                           remoteChangesPendingForActiveFiles, saved>>
                          ELSE /\ vault' = [vault EXCEPT ![previous] = remoteContent]
                               /\ fileMetadata' = meta
                               /\ pendingFiles' = pendingFiles \ {previous}
                               /\ remoteChangesPendingForActiveFiles' = deferred
                               /\ saved' = Snapshot(meta, pendingDeletions, deferred)
           ELSE UNCHANGED <<vault, fileMetadata, pendingFiles,
                            remoteChangesPendingForActiveFiles, saved, hist>>
    /\ UNCHANGED <<settings, remote, listed, lagging, inProgress, pendingDeletions,
                   recentlyPushedFiles, recentlyDeletedFromRemote, runVars, active,
                   lastCall>>
    /\ OtherFrame

----------------------------------------------------------------------------
(* syncWithGitHub, 666-798                                                  *)

Handlers == {"sync", "forcePull", "forcePush"}

\* 667-672, 1610-1613, 1658-1661: an invocation that finds inProgress set
\* returns at once.
CallRefused ==
    /\ inProgress
    /\ hist.refusals < MaxRefusals
    /\ \E h \in Handlers : lastCall' = <<h, "refused">>
    /\ hist' = [hist EXCEPT !.refusals = @ + 1]
    /\ UNCHANGED <<worldVars, stateVars, runVars, active>>
    /\ OtherFrame

\* The test of 667, 1610 and 1658 on syncState.inProgress (validateSettings
\* holds: the plugin is configured).
mayStartUnguarded == TRUE

mayStart == ~inProgress

\* 674-713: the guard is taken, the local files are read.
syncWithGitHubStarts(types) ==
    /\ inProgress' = TRUE
    /\ handler' = "sync"
    /\ \E type \in types : syncType' = type
    /\ localFiles' = getLocalFileStates(settings.syncPath, vault)
    /\ changesMade' = NoChanges
    /\ failed' = FALSE
    /\ pc' = "deletions"
    /\ active' = active + 1
    /\ lastCall' = <<"sync", "started">>
    /\ hist' = RunStarts
    /\ UNCHANGED <<worldVars, pendingFiles, fileMetadata, pendingDeletions,
                   recentlyPushedFiles, recentlyDeletedFromRemote, lastActiveFile,
                   remoteChangesPendingForActiveFiles, saved,
                   modal, remoteFiles, conflicts, filesToPush, filesToPull, todo, up>>
    /\ OtherFrame

SyncStart ==
    /\ mayStart
    /\ syncWithGitHubStarts(SyncTypes)

\* A run started by the timer, by onload, by a vault event or by the closing
\* of a file.
AutomatedStart ==
    /\ mayStart
    /\ syncWithGitHubStarts(AutomatedSyncTypes)

\* 1241 as it would be if every processed entry were removed.
remainingDeletionsNone(deletions, failing) == EmptyMap

\* 1241: the entries of the calls that threw stay.
remainingDeletions(deletions, failing) == [q \in failing |-> deletions[q]]

\* processPendingDeletions, 1226-1244, each deleteFileFromGitHub call taken
\* as a whole: it ends with the path absent from the branch, or it throws.
processPendingDeletions ==
    /\ pc = "deletions"
    /\ \E failing \in SUBSET (DOMAIN pendingDeletions) :
          /\ Cardinality(failing) <= 1
          /\ failing # {} => hist.failures < MaxFailures
          /\ LET successfulDeletions == DOMAIN pendingDeletions \ failing
                 gone == {getRemotePath(settings.syncPath, q) : q \in successfulDeletions}
                 written == [r \in RemotePathsU |-> IF r \in gone THEN NoText ELSE remote[r]]
                 dels == remainingDeletions(pendingDeletions, failing)
             IN  /\ remote' = written
                 /\ listed' = WriteView(written)
                 /\ recentlyDeletedFromRemote' =
                       [q \in DOMAIN recentlyDeletedFromRemote \cup successfulDeletions |->
                           IF q \in successfulDeletions THEN 0
                           ELSE recentlyDeletedFromRemote[q]]
                 /\ pendingDeletions' = dels
                 /\ saved' = Snapshot(fileMetadata, dels, remoteChangesPendingForActiveFiles)
                 /\ changesMade' = [changesMade EXCEPT !.deletedRemotely = successfulDeletions]
                 /\ hist' = Failing(failing # {})
    /\ pc' = "fetch1"
    /\ UNCHANGED <<settings, vault, activeFile, lagging, inProgress, pendingFiles,
                   fileMetadata, recentlyPushedFiles, lastActiveFile,
                   remoteChangesPendingForActiveFiles,
                   modal, handler, syncType, localFiles, remoteFiles, conflicts,
                   filesToPush, filesToPull, todo, up, failed, active, lastCall>>
    /\ OtherFrame

\* 719, 1108 and 1620: the remote states are fetched, before detection
\* ("fetch1"), after the pushes ("fetch2"), and by forcePullFromGitHub
\* ("forceFetch"), which aborts when they are null (1622-1625).
FetchRemoteStates ==
    /\ pc \in {"fetch1", "fetch2", "forceFetch"}
    /\ \E f \in ListingFailures :
          LET states == getRemoteFileStates(f.top, f.dirs)
          IN  /\ remoteFiles' = states
              /\ recentlyPushedFiles' = IF states.ok THEN ExpirePushed(recentlyPushedFiles)
                                        ELSE recentlyPushedFiles
              /\ recentlyDeletedFromRemote' =
                    IF states.ok THEN ExpireDeleted(recentlyDeletedFromRemote)
                    ELSE recentlyDeletedFromRemote
              /\ hist' = [Failing(f.top \/ f.dirs # {}) EXCEPT
                             !.incomplete = f.top \/ f.dirs # {}]
    /\ pc' = CASE pc = "fetch1" -> IF remoteFiles'.ok /\ DOMAIN localFiles = {}
                                   THEN "resolve" ELSE "detect"
               [] pc = "fetch2" -> "plan"
               [] OTHER -> IF ~remoteFiles'.ok THEN "forceAbort"
                           ELSE IF DOMAIN remoteFiles'.files = {} THEN "forceFinally"
                           ELSE "pull"
    /\ todo' = CASE pc = "fetch1" -> DOMAIN localFiles
                 [] pc = "fetch2" -> todo
                 [] OTHER -> DOMAIN remoteFiles'.files
    /\ filesToPull' = IF pc = "forceFetch" THEN remoteFiles'.files ELSE filesToPull
    /\ UNCHANGED <<worldVars, inProgress, pendingFiles, fileMetadata, pendingDeletions,
                   lastActiveFile, remoteChangesPendingForActiveFiles, saved,
                   modal, handler, syncType, localFiles, conflicts, filesToPush,
                   up, changesMade, failed, active, lastCall>>
    /\ OtherFrame

ThrowsUncaught ==
    /\ failed' = TRUE
    /\ pc' = "idle"
    /\ todo' = {}

\* An exception reaches the catch block of syncWithGitHub (783-792); the
\* finally block comes next.
Throws ==
    /\ failed' = TRUE
    /\ pc' = "finally"
    /\ todo' = {}

\* 809 as it would be if only the files without metadata were queued.
assumedPendingNewOnly(files, meta) == {q \in DOMAIN files : ~Has(meta, q)}

\* 806-813: the local files assumed pending for push.
assumedPending(files, meta) ==
    {q \in DOMAIN files :
        \/ ~Has(meta, q)
        \/ calculateChecksum(files[q]) # meta[q].remoteContentChecksum}

\* detectConflicts with remoteFiles === null, 804-815
DetectWithoutRemote ==
    /\ pc = "detect"
    /\ ~remoteFiles.ok
    /\ pendingFiles' = pendingFiles \cup assumedPending(localFiles, fileMetadata)
    /\ conflicts' = EmptyMap
    /\ todo' = {}
    /\ pc' = "resolve"
    /\ hist' = [hist EXCEPT !.detected =
                    {[path |-> q, class |-> "push"] : q \in {x \in LocalPathsU : ThreeWay(x)}}]
    /\ UNCHANGED <<worldVars, inProgress, fileMetadata, pendingDeletions,
                   recentlyPushedFiles, recentlyDeletedFromRemote, lastActiveFile,
                   remoteChangesPendingForActiveFiles, saved,
                   modal, handler, syncType, localFiles, remoteFiles, filesToPush,
                   filesToPull, up, changesMade, failed, active, lastCall>>
    /\ OtherFrame

\* 875-876
localChanged(path) ==
    calculateChecksum(localFiles[path]) # fileMetadata[path].remoteContentChecksum

remoteChanged(path) ==
    remoteFiles.files[path].sha # fileMetadata[path].githubBlobSha

\* 825 as it would be if only a document without metadata were new.
isNewLocalFileUntracked(path) ==
    /\ ~Has(pendingDeletions, path)
    /\ ~Has(fileMetadata, path)

\* 825: the local file is new, to be pushed.
isNewLocalFile(path) ==
    /\ ~Has(pendingDeletions, path)
    /\ \/ ~Has(fileMetadata, path)
       \/ fileMetadata[path].githubBlobSha = NoText

\* The classification of 888-911, and of 823-832 and 835-873 before it.
Classify(path) ==
    IF ~Has(remoteFiles.files, path) THEN "remote missing"
    ELSE IF ~Has(fileMetadata, path) THEN "no metadata"
    ELSE IF localChanged(path) /\ remoteChanged(path) THEN "conflict"
    ELSE IF localChanged(path) THEN "push"
    ELSE IF remoteChanged(path) THEN "pull"
    ELSE "unchanged"

\* One iteration of the loop of detectConflicts over the local files, 818-912.
DetectStep ==
    /\ pc = "detect"
    /\ remoteFiles.ok
    /\ todo # {}
    /\ LET path == FirstOf(todo)
           class == Classify(path)
           rest == todo \ {path}
       IN  \E fails \in (IF class \in {"no metadata", "conflict"} THEN FailChoices ELSE {FALSE}) :
              LET remoteFileMetadata == remoteFiles.files[path]
                  remoteContent == remote[remoteFileMetadata.path]
                  fetched == ~fails /\ remoteContent # NoText
                  newMetadata == Metadata(remoteFileMetadata.sha,
                                          calculateChecksum(localFiles[path]),
                                          calculateChecksum(remoteContent))
                  outcome == IF class = "conflict" /\ ~fetched THEN "exception" ELSE class
              IN  /\ hist' = [Failing(fails) EXCEPT
                                !.detected = IF ThreeWay(path)
                                             THEN @ \cup {[path |-> path, class |-> outcome]}
                                             ELSE @,
                                !.graced = IF InGrace(path) /\ class = "conflict"
                                           THEN @ \cup {[path |-> path, class |-> "conflict"]}
                                           ELSE @]
                  /\ fileMetadata' = IF class = "no metadata" /\ fetched
                                     THEN Put(fileMetadata, path, newMetadata)
                                     ELSE fileMetadata
                  /\ pendingFiles' =
                        CASE class = "remote missing" ->
                                IF isNewLocalFile(path)
                                THEN pendingFiles \cup {path}
                                ELSE pendingFiles
                          [] class = "no metadata" ->
                                IF fetched /\ calculateChecksum(localFiles[path])
                                                 = calculateChecksum(remoteContent)
                                THEN pendingFiles \ {path}
                                ELSE pendingFiles \cup {path}
                          [] class = "conflict" ->
                                IF fetched THEN pendingFiles \cup {path} ELSE pendingFiles
                          [] class = "push" -> pendingFiles \cup {path}
                          [] OTHER -> pendingFiles \ {path}
                  /\ conflicts' = IF class = "conflict" /\ fetched
                                  THEN Put(conflicts, path,
                                           [local |-> localFiles[path],
                                            remote |-> [path |-> remoteFileMetadata.path,
                                                        sha |-> remoteFileMetadata.sha,
                                                        content |-> remoteContent]])
                                  ELSE conflicts
                  /\ IF class = "conflict" /\ ~fetched
                     THEN Throws
                     ELSE /\ failed' = failed
                          /\ pc' = IF rest = {} THEN "resolve" ELSE "detect"
                          /\ todo' = IF rest = {} THEN DOMAIN conflicts' ELSE rest
    /\ UNCHANGED <<worldVars, inProgress, pendingDeletions,
                   recentlyPushedFiles, recentlyDeletedFromRemote, lastActiveFile,
                   remoteChangesPendingForActiveFiles, saved,
                   modal, handler, syncType, localFiles, remoteFiles, filesToPush,
                   filesToPull, up, changesMade, active, lastCall>>
    /\ OtherFrame

\* applyConflictResolution, 962-1023
applyConflictResolution(path, conflict, resolution) ==
    LET file == vault[path] # NoText
        checksum == calculateChecksum(conflict.remote.content)
        localPath == getLocalPath(settings.syncPath, path)
        merged == mergeContent(conflict.local, conflict.remote.content)
        files == CASE resolution = "remote" /\ file ->
                         [vault EXCEPT ![path] = conflict.remote.content]
                   [] resolution = "remote" /\ ~file /\ localPath \in LocalPathsU ->
                         [vault EXCEPT ![localPath] = conflict.remote.content]
                   [] resolution = "merge" /\ file -> [vault EXCEPT ![path] = merged]
                   [] OTHER -> vault
        meta == CASE resolution = "remote" /\ file /\ Has(fileMetadata, path) ->
                        [fileMetadata EXCEPT ![path].localChecksum = checksum,
                                             ![path].remoteContentChecksum = checksum,
                                             ![path].githubBlobSha = conflict.remote.sha]
                  [] resolution = "remote" /\ ~file ->
                        Put(fileMetadata, localPath,
                            Metadata(conflict.remote.sha, checksum, checksum))
                  [] OTHER -> fileMetadata
    IN  /\ vault' = files
        /\ fileMetadata' = meta
        /\ pendingFiles' = CASE resolution = "local" -> pendingFiles \cup {path}
                             [] resolution = "remote" /\ file -> pendingFiles \ {path}
                             [] resolution = "merge" /\ file -> pendingFiles \cup {path}
                             [] OTHER -> pendingFiles
        /\ saved' = Snapshot(meta, pendingDeletions, remoteChangesPendingForActiveFiles)

\* 1061-1071: the push queue is filled from pendingFiles.
PushQueue(pending) == {q \in pending : Has(localFiles, q)}

ResolveFrame ==
    UNCHANGED <<settings, activeFile, remote, listed, lagging, inProgress, pendingDeletions,
                recentlyPushedFiles, recentlyDeletedFromRemote, lastActiveFile,
                remoteChangesPendingForActiveFiles, handler, syncType, localFiles,
                remoteFiles, conflicts, filesToPull, up, changesMade, failed, ghostVars>>

\* One iteration of the loop of resolveConflicts, 939-958, for a conflict
\* whose resolution needs no prompt.
ResolveStep ==
    /\ pc = "resolve"
    /\ todo # {}
    /\ modal = "closed"
    /\ LET path == FirstOf(todo)
           isRealtimeOrSaveOnClose ==
               syncType \in {"Real-time sync", "Save on Close Sync"}
       IN  IF settings.conflictResolution = "ask" /\ ~isRealtimeOrSaveOnClose
           THEN /\ modal' = "open"
                /\ UNCHANGED <<vault, fileMetadata, pendingFiles, saved, todo>>
           ELSE /\ applyConflictResolution(path, conflicts[path],
                      IF settings.conflictResolution = "ask" THEN "local"
                      ELSE settings.conflictResolution)
                /\ todo' = todo \ {path}
                /\ modal' = modal
    /\ pc' = pc
    /\ filesToPush' = filesToPush
    /\ ResolveFrame
    /\ OtherFrame

\* A button of the conflict prompt is pressed (183-200) while resolveConflicts
\* awaits askForResolution.
ResolveChoose ==
    /\ pc = "resolve"
    /\ modal = "open"
    /\ \E resolution \in {"local", "remote", "merge"} :
          applyConflictResolution(FirstOf(todo), conflicts[FirstOf(todo)], resolution)
    /\ todo' = todo \ {FirstOf(todo)}
    /\ modal' = "closed"
    /\ pc' = pc
    /\ filesToPush' = filesToPush
    /\ ResolveFrame
    /\ OtherFrame

\* The prompt is closed without a button being pressed: the Modal closes and
\* the promise of askForResolution (204-209) is never resolved.
ModalDismiss ==
    /\ modal = "open"
    /\ modal' = "dismissed"
    /\ UNCHANGED <<worldVars, stateVars, pc, handler, syncType, localFiles, remoteFiles,
                   conflicts, filesToPush, filesToPull, todo, up, changesMade, failed,
                   ghostVars>>
    /\ OtherFrame

\* performSync, 1060-1071: filesToPush is built.
PlanPush ==
    /\ pc = "resolve"
    /\ todo = {}
    /\ modal = "closed"
    /\ filesToPush' = PushQueue(pendingFiles)
    /\ pendingFiles' = PushQueue(pendingFiles)
    /\ todo' = PushQueue(pendingFiles)
    /\ pc' = IF PushQueue(pendingFiles) = {} THEN "fetch2" ELSE "push"
    /\ UNCHANGED <<worldVars, inProgress, fileMetadata, pendingDeletions,
                   recentlyPushedFiles, recentlyDeletedFromRemote, lastActiveFile,
                   remoteChangesPendingForActiveFiles, saved,
                   modal, handler, syncType, localFiles, remoteFiles, conflicts,
                   filesToPull, up, changesMade, failed, ghostVars>>
    /\ OtherFrame

----------------------------------------------------------------------------
(* uploadFile, 1930-2089, called by performSync (1074-1104) and by          *)
(* forcePushToGitHub (1671-1681)                                            *)

\* AfterUpload as it would be if the loop of 1074 ended with the first file.
AfterUploadEndsLoop(rest) ==
    IF handler = "sync" THEN "fetch2" ELSE "forceFinally"

\* AfterUpload as it would be if performSync planned the pulls from the tree
\* fetched before the pushes.
AfterUploadSkipsRefetch(rest) ==
    IF rest # {} THEN "push"
    ELSE IF handler = "sync" THEN "plan"
    ELSE "forceFinally"

\* Where the caller goes on once uploadFile has returned or thrown.
AfterUpload(rest) ==
    IF rest # {} THEN "push"
    ELSE IF handler = "sync" THEN "fetch2"
    ELSE "forceFinally"

UploadFrame ==
    UNCHANGED <<settings, activeFile, lagging, inProgress, pendingDeletions,
                recentlyDeletedFromRemote, lastActiveFile,
                remoteChangesPendingForActiveFiles, handler, syncType, localFiles,
                remoteFiles, conflicts, filesToPush, filesToPull, failed, active, lastCall>>

\* 1931-1936: the file is read; a file that is gone makes the call throw.
UploadStart ==
    /\ pc = "push"
    /\ todo # {}
    /\ LET path == FirstOf(todo)
       IN  IF vault[path] = NoText
           THEN /\ todo' = todo \ {path}
                /\ pc' = AfterUpload(todo \ {path})
                /\ up' = up
           ELSE /\ up' = [NoUpload EXCEPT !.path = path, !.localContent = vault[path],
                                          !.maxRetries = IF handler = "sync" THEN 3 ELSE 1]
                /\ pc' = "uploadFetch"
                /\ todo' = todo
    /\ UNCHANGED <<worldVars, stateVars, modal, handler, syncType, localFiles, remoteFiles,
                   conflicts, filesToPush, filesToPull, changesMade, failed, ghostVars>>
    /\ OtherFrame

\* 2006-2036: the resolution is applied for the attempt in progress.
\* The result is <<content to push, vault, metadata>>.
Resolved(path, localContent, remoteContent, sha, resolution, meta) ==
    LET contentToPush == CASE resolution = "remote" -> remoteContent
                           [] resolution = "merge" -> mergeContent(localContent, remoteContent)
                           [] OTHER -> localContent
        resolvedContentChecksum == calculateChecksum(contentToPush)
    IN  [contentToPush |-> contentToPush,
         files |-> IF resolution \in {"remote", "merge"}
                   THEN [vault EXCEPT ![path] = contentToPush]
                   ELSE vault,
         meta |-> [meta EXCEPT ![path].githubBlobSha = sha,
                               ![path].localChecksum = resolvedContentChecksum,
                               ![path].remoteContentChecksum = resolvedContentChecksum,
                               ![path].conflicted = FALSE]]

\* 1987-1997 as it would be if every attempt that finds a difference prompted.
promptsHumanEveryAttempt(differs, chosenConflictResolution, conflictResolution) ==
    differs /\ conflictResolution = "ask"

\* 1987-1997: the attempt opens the prompt (settings.realtimeSync and
\* settings.syncOnSave are false, 243-245).
promptsHuman(differs, chosenConflictResolution, conflictResolution) ==
    /\ differs
    /\ chosenConflictResolution = "undefined"
    /\ conflictResolution = "ask"

\* 1938-2043: one attempt up to the point where the PUT is sent; the remote
\* file is fetched and a difference of contents is resolved.
UploadFetch ==
    /\ pc = "uploadFetch"
    /\ LET path == up.path
           remotePath == getRemotePath(settings.syncPath, path)
           created == ~Has(fileMetadata, path)
           meta0 == IF created
                    THEN Put(fileMetadata, path,
                             Metadata(NoText, calculateChecksum(up.localContent), NoText))
                    ELSE fileMetadata
           rest == todo \ {path}
       IN  \E fails \in FailChoices :
              LET remoteContentFromGitHub == remote[remotePath]
                  exists == remoteContentFromGitHub # NoText
                  currentRemoteSha == IF exists THEN BlobSha(remoteContentFromGitHub) ELSE NoText
                  meta1 == IF exists
                           THEN [meta0 EXCEPT
                                   ![path].remoteContentChecksum =
                                        calculateChecksum(remoteContentFromGitHub),
                                   ![path].githubBlobSha = currentRemoteSha]
                           ELSE meta0
                  differs == exists /\ up.localContent # remoteContentFromGitHub
                  asks == promptsHuman(differs, up.chosenConflictResolution,
                                       settings.conflictResolution)
                  resolution == IF up.chosenConflictResolution = "undefined"
                                THEN settings.conflictResolution
                                ELSE up.chosenConflictResolution
                  r == Resolved(path, up.localContent, remoteContentFromGitHub,
                                currentRemoteSha, resolution, meta1)
                  fetchedUp == [up EXCEPT !.currentAttempt = @ + 1,
                                          !.currentRemoteSha = currentRemoteSha,
                                          !.remoteContentFromGitHub = remoteContentFromGitHub]
              IN  /\ hist' = IF fails
                              THEN [Failing(fails) EXCEPT !.pushFailed = @ \cup {path}]
                              ELSE hist
                  /\ IF fails
                     THEN /\ fileMetadata' = meta0
                          /\ saved' = IF created
                                      THEN Snapshot(meta0, pendingDeletions,
                                                    remoteChangesPendingForActiveFiles)
                                      ELSE saved
                          /\ up' = NoUpload
                          /\ todo' = rest
                          /\ pc' = AfterUpload(rest)
                          /\ UNCHANGED <<vault, modal>>
                     ELSE IF asks
                     THEN /\ fileMetadata' = meta1
                          /\ saved' = Snapshot(meta1, pendingDeletions,
                                               remoteChangesPendingForActiveFiles)
                          /\ up' = fetchedUp
                          /\ modal' = "open"
                          /\ pc' = "uploadAsk"
                          /\ UNCHANGED <<vault, todo>>
                     ELSE IF differs
                     THEN /\ fileMetadata' = r.meta
                          /\ vault' = r.files
                          /\ saved' = Snapshot(r.meta, pendingDeletions,
                                               remoteChangesPendingForActiveFiles)
                          /\ up' = [fetchedUp EXCEPT !.chosenConflictResolution = resolution,
                                                     !.contentToPush = r.contentToPush]
                          /\ pc' = "uploadPut"
                          /\ UNCHANGED <<modal, todo>>
                     ELSE /\ fileMetadata' = meta1
                          /\ saved' = IF created \/ exists
                                      THEN Snapshot(meta1, pendingDeletions,
                                                    remoteChangesPendingForActiveFiles)
                                      ELSE saved
                          /\ up' = [fetchedUp EXCEPT !.contentToPush = up.localContent]
                          /\ pc' = "uploadPut"
                          /\ UNCHANGED <<vault, modal, todo>>
    /\ UNCHANGED <<remote, listed, pendingFiles, recentlyPushedFiles, changesMade>>
    /\ UploadFrame
    /\ OtherFrame

\* A button of the prompt opened at 1996-1997 is pressed.
UploadChoose ==
    /\ pc = "uploadAsk"
    /\ modal = "open"
    /\ \E resolution \in {"local", "remote", "merge"} :
          LET r == Resolved(up.path, up.localContent, up.remoteContentFromGitHub,
                            up.currentRemoteSha, resolution,
                            IF Has(fileMetadata, up.path) THEN fileMetadata
                            ELSE Put(fileMetadata, up.path, Metadata(NoText, NoText, NoText)))
          IN  /\ fileMetadata' = r.meta
              /\ vault' = r.files
              /\ saved' = Snapshot(r.meta, pendingDeletions, remoteChangesPendingForActiveFiles)
              /\ up' = [up EXCEPT !.chosenConflictResolution = resolution,
                                  !.contentToPush = r.contentToPush]
    /\ modal' = "closed"
    /\ pc' = "uploadPut"
    /\ UNCHANGED <<remote, listed, pendingFiles, recentlyPushedFiles, changesMade, todo, hist>>
    /\ UploadFrame
    /\ OtherFrame

\* What the contents endpoint answers to a PUT that carries sha (NoText: none).
PutStatus(current, sha) ==
    IF current = NoText
    THEN (IF sha = NoText THEN 201 ELSE 422)
    ELSE IF sha = NoText THEN 422
    ELSE IF sha = BlobSha(current) THEN 200
    ELSE 409

\* 2080 as it would be if a 409 were retried whatever the attempt.
uploadRetriedAlways(status, currentAttempt, attemptsAllowed) == status = 409

\* 2080: the catch block of the PUT goes round the loop again.
uploadRetried(status, currentAttempt, attemptsAllowed) ==
    status = 409 /\ currentAttempt < attemptsAllowed

\* 2066-2071 as it would be if the revision id of the metadata were left as
\* the attempt set it before the PUT.
metadataAfterPutOldSha(resultSha, finalLocalChecksum) ==
    Metadata(up.currentRemoteSha, finalLocalChecksum, finalLocalChecksum)

\* 2066-2071: the metadata record after a PUT that returned resultSha.
metadataAfterPut(resultSha, finalLocalChecksum) ==
    Metadata(resultSha, finalLocalChecksum, finalLocalChecksum)

\* 2045-2087: the PUT and what follows it; on success the caller's
\* bookkeeping (1096-1098 in performSync, 1675 in forcePushToGitHub).
UploadPut ==
    /\ pc = "uploadPut"
    /\ LET path == up.path
           remotePath == getRemotePath(settings.syncPath, path)
           rest == todo \ {path}
           finalLocalChecksum == calculateChecksum(up.contentToPush)
           written == [remote EXCEPT ![remotePath] = up.contentToPush]
           meta == Put(fileMetadata, path,
                       metadataAfterPut(BlobSha(up.contentToPush), finalLocalChecksum))
       IN  \E fails \in FailChoices :
              LET status == IF fails THEN 500 ELSE PutStatus(remote[remotePath], up.currentRemoteSha)
              IN  /\ hist' = IF status \in {200, 201}
                              THEN [hist EXCEPT !.pushed = Put(@, path, 0),
                                                !.renamed = Del(@, path),
                                                !.pushFailed = @ \ {path}]
                              ELSE IF uploadRetried(status, up.currentAttempt,
                                                    up.maxRetries)
                              THEN Failing(fails)
                              ELSE [Failing(fails) EXCEPT !.pushFailed = @ \cup {path}]
                  /\ IF status \in {200, 201}
                     THEN /\ remote' = written
                          /\ listed' = WriteView(written)
                          /\ fileMetadata' = meta
                          /\ saved' = Snapshot(meta, pendingDeletions,
                                               remoteChangesPendingForActiveFiles)
                          /\ pendingFiles' = IF handler = "sync" THEN pendingFiles \ {path}
                                             ELSE pendingFiles
                          /\ recentlyPushedFiles' =
                                IF handler = "sync" THEN Put(recentlyPushedFiles, path, 0)
                                ELSE recentlyPushedFiles
                          /\ changesMade' = [changesMade EXCEPT !.pushed = @ \cup {path}]
                          /\ up' = NoUpload
                          /\ todo' = rest
                          /\ pc' = AfterUpload(rest)
                     ELSE IF uploadRetried(status, up.currentAttempt, up.maxRetries)
                     THEN /\ pc' = "uploadFetch"
                          /\ UNCHANGED <<remote, listed, fileMetadata, saved, pendingFiles,
                                         recentlyPushedFiles, changesMade, up, todo>>
                     ELSE /\ up' = NoUpload
                          /\ todo' = rest
                          /\ pc' = AfterUpload(rest)
                          /\ UNCHANGED <<remote, listed, fileMetadata, saved, pendingFiles,
                                         recentlyPushedFiles, changesMade>>
    /\ UNCHANGED <<vault, modal>>
    /\ UploadFrame
    /\ OtherFrame

----------------------------------------------------------------------------
(* performSync after the pushes, 1106-1223                                  *)

\* 1128: the file is on both sides and the listed sha is not the recorded one.
changedRemotely(path) ==
    /\ Has(localFiles, path)
    /\ Has(fileMetadata, path)
    /\ remoteFiles.files[path].sha # fileMetadata[path].githubBlobSha

\* 1112-1152
PullSet ==
    {q \in DOMAIN remoteFiles.files :
        \/ ~Has(localFiles, q) /\ ~Has(pendingDeletions, q)
        \/ /\ changedRemotely(q)
           /\ activeFile # q
           /\ q \notin filesToPush \/ settings.conflictResolution = "remote"}

\* 1155-1173 as it would be without the test of recentlyPushedFiles.
DeleteLocallySetNoGrace ==
    {q \in DOMAIN localFiles :
        /\ ~Has(remoteFiles.files, q)
        /\ Has(fileMetadata, q) /\ fileMetadata[q].githubBlobSha # NoText}

\* 1155-1173
DeleteLocallySet ==
    {q \in DOMAIN localFiles :
        /\ ~Has(remoteFiles.files, q)
        /\ Has(fileMetadata, q) /\ fileMetadata[q].githubBlobSha # NoText
        /\ ~wasRecentlyPushedAt(recentlyPushedFiles, q)}

\* 1110-1173 and 1188-1191: the pulls and the local deletions are planned.
PlanPull ==
    /\ pc = "plan"
    /\ IF remoteFiles.ok
       THEN /\ filesToPull' = [q \in PullSet |-> remoteFiles.files[q]]
            /\ remoteChangesPendingForActiveFiles' =
                  (remoteChangesPendingForActiveFiles
                     \cup {q \in DOMAIN remoteFiles.files : changedRemotely(q) /\ activeFile = q})
                  \ {q \in PullSet : changedRemotely(q)}
            /\ todo' = IF DeleteLocallySet # {} THEN DeleteLocallySet ELSE PullSet
            /\ pc' = IF DeleteLocallySet # {} THEN "deleteLocal"
                     ELSE IF PullSet # {} THEN "pull"
                     ELSE "complete"
            /\ hist' = [hist EXCEPT !.graced =
                  @ \cup {[path |-> q, class |-> "delete-local"] :
                             q \in {x \in DeleteLocallySet : InGrace(x)}}
                    \cup {[path |-> q, class |-> "pull"] :
                             q \in {x \in PullSet : InGrace(x)}}]
       ELSE /\ pc' = "complete"
            /\ UNCHANGED <<filesToPull, remoteChangesPendingForActiveFiles, todo, hist>>
    /\ UNCHANGED <<worldVars, inProgress, pendingFiles, fileMetadata, pendingDeletions,
                   recentlyPushedFiles, recentlyDeletedFromRemote, lastActiveFile, saved,
                   modal, handler, syncType, localFiles, remoteFiles, conflicts,
                   filesToPush, up, changesMade, failed, active, lastCall>>
    /\ OtherFrame

\* 1176-1187: one local deletion.  vault.delete dispatches the 'delete' event
\* (433-437), whose handler runs before or after 1179 removes the record.
DeleteLocalStep ==
    /\ pc = "deleteLocal"
    /\ LET path == FirstOf(todo)
           rest == todo \ {path}
       IN  /\ IF vault[path] = NoText
              THEN UNCHANGED <<vault, activeFile, fileMetadata, pendingFiles, pendingDeletions,
                               remoteChangesPendingForActiveFiles, saved, changesMade>>
              ELSE /\ vault' = [vault EXCEPT ![path] = NoText]
                   /\ activeFile' = IF activeFile = path THEN NoPath ELSE activeFile
                   /\ \E eventFirst \in BOOLEAN :
                         IF eventFirst /\ shouldSyncFile(settings.syncPath, path)
                         THEN onFileDeleted(path)
                         ELSE LET meta == Del(fileMetadata, path)
                                  deferred == remoteChangesPendingForActiveFiles \ {path}
                              IN  /\ fileMetadata' = meta
                                  /\ remoteChangesPendingForActiveFiles' = deferred
                                  /\ pendingFiles' = pendingFiles \ {path}
                                  /\ pendingDeletions' = pendingDeletions
                                  /\ saved' = Snapshot(meta, pendingDeletions, deferred)
                   /\ changesMade' = [changesMade EXCEPT !.deletedLocally = @ \cup {path}]
           /\ todo' = IF rest # {} THEN rest ELSE DOMAIN filesToPull
           /\ pc' = IF rest # {} THEN "deleteLocal"
                    ELSE IF DOMAIN filesToPull # {} THEN "pull"
                    ELSE "complete"
    /\ UNCHANGED <<settings, remote, listed, lagging, inProgress, recentlyPushedFiles,
                   recentlyDeletedFromRemote, lastActiveFile,
                   modal, handler, syncType, localFiles, remoteFiles, conflicts,
                   filesToPush, filesToPull, up, failed, ghostVars>>
    /\ OtherFrame

\* downloadFile, 1316-1374, called at 1197 and at 1630.
PullStep ==
    /\ pc = "pull"
    /\ LET key == FirstOf(todo)
           fileInfo == filesToPull[key]
           rest == todo \ {key}
           remoteContent == remote[fileInfo.path]
           localPath == getLocalPath(settings.syncPath, fileInfo.path)
           remoteContentChecksum == calculateChecksum(remoteContent)
           meta == Put(fileMetadata, localPath,
                       Metadata(fileInfo.sha, remoteContentChecksum, remoteContentChecksum))
           deferred == remoteChangesPendingForActiveFiles \ {localPath}
       IN  /\ \E fails \in FailChoices :
                 /\ hist' = Failing(fails)
                 /\ IF fails \/ remoteContent = NoText
                    THEN UNCHANGED <<vault, fileMetadata, pendingFiles,
                                     remoteChangesPendingForActiveFiles, saved, changesMade>>
                    ELSE /\ vault' = [vault EXCEPT ![localPath] = remoteContent]
                         /\ fileMetadata' = meta
                         /\ pendingFiles' = pendingFiles \ {localPath}
                         /\ remoteChangesPendingForActiveFiles' = deferred
                         /\ saved' = Snapshot(meta, pendingDeletions, deferred)
                         /\ changesMade' = [changesMade EXCEPT !.pulled = @ \cup {key}]
           /\ todo' = rest
           /\ pc' = IF rest # {} THEN "pull"
                    ELSE IF handler = "sync" THEN "complete"
                    ELSE "forceFinally"
    /\ UNCHANGED <<settings, activeFile, remote, listed, lagging, inProgress, pendingDeletions,
                   recentlyPushedFiles, recentlyDeletedFromRemote, lastActiveFile,
                   modal, handler, syncType, localFiles, remoteFiles, conflicts,
                   filesToPush, filesToPull, up, failed, active, lastCall>>
    /\ OtherFrame

\* 1206-1220 and 731-733: the caches are cleaned, the data is saved.
Complete ==
    /\ pc = "complete"
    /\ recentlyPushedFiles' = ExpirePushed(recentlyPushedFiles)
    /\ recentlyDeletedFromRemote' = ExpireDeleted(recentlyDeletedFromRemote)
    /\ saved' = Snapshot(fileMetadata, pendingDeletions, remoteChangesPendingForActiveFiles)
    /\ pc' = "finally"
    /\ UNCHANGED <<worldVars, inProgress, pendingFiles, fileMetadata, pendingDeletions,
                   lastActiveFile, remoteChangesPendingForActiveFiles,
                   modal, handler, syncType, localFiles, remoteFiles, conflicts,
                   filesToPush, filesToPull, todo, up, changesMade, failed, ghostVars>>
    /\ OtherFrame

\* The locals of a handler go when it returns; changesMade and failed stay
\* for the notice it shows.
Returned ==
    /\ handler' = "none"
    /\ pc' = "idle"
    /\ syncType' = "none"
    /\ modal' = "closed"
    /\ localFiles' = EmptyMap
    /\ remoteFiles' = NoRemoteStates
    /\ conflicts' = EmptyMap
    /\ filesToPush' = {}
    /\ filesToPull' = EmptyMap
    /\ todo' = {}
    /\ up' = NoUpload
    /\ UNCHANGED <<changesMade, failed>>

\* 793-797: finally.
Finally ==
    /\ pc = "finally"
    /\ inProgress' = FALSE
    /\ saved' = Snapshot(fileMetadata, pendingDeletions, remoteChangesPendingForActiveFiles)
    /\ Returned
    /\ active' = active - 1
    /\ hist' = [hist EXCEPT !.quiet = IF failed \/ hist.dirty THEN 0
                                      ELSE IF @ < 2 THEN @ + 1 ELSE @]
    /\ UNCHANGED <<worldVars, pendingFiles, fileMetadata, pendingDeletions,
                   recentlyPushedFiles, recentlyDeletedFromRemote, lastActiveFile,
                   remoteChangesPendingForActiveFiles, lastCall>>
    /\ OtherFrame

----------------------------------------------------------------------------
(* forcePullFromGitHub, 1608-1653, and forcePushToGitHub, 1656-1697         *)

ForceStartFrame ==
    UNCHANGED <<worldVars, pendingFiles, fileMetadata, pendingDeletions,
                recentlyPushedFiles, recentlyDeletedFromRemote, lastActiveFile,
                remoteChangesPendingForActiveFiles, saved,
                modal, syncType, localFiles, remoteFiles, conflicts, filesToPush,
                filesToPull, up>>

\* 1610-1617
ForcePullStart ==
    /\ mayStart
    /\ inProgress' = TRUE
    /\ handler' = "forcePull"
    /\ pc' = "forceFetch"
    /\ todo' = {}
    /\ changesMade' = NoChanges
    /\ failed' = FALSE
    /\ active' = active + 1
    /\ lastCall' = <<"forcePull", "started">>
    /\ hist' = ForceStarts
    /\ ForceStartFrame
    /\ OtherFrame

\* 1658-1669
ForcePushStart ==
    /\ mayStart
    /\ inProgress' = TRUE
    /\ handler' = "forcePush"
    /\ todo' = DOMAIN getLocalFileStates(settings.syncPath, vault)
    /\ pc' = IF todo' = {} THEN "forceFinally" ELSE "push"
    /\ changesMade' = NoChanges
    /\ failed' = FALSE
    /\ active' = active + 1
    /\ lastCall' = <<"forcePush", "started">>
    /\ hist' = ForceStarts
    /\ ForceStartFrame
    /\ OtherFrame

\* 1638-1652 and 1683-1696: the data is saved unless the handler returned
\* early (1624), then finally releases the guard without saving.
ForceFinally ==
    /\ pc \in {"forceFinally", "forceAbort"}
    /\ inProgress' = FALSE
    /\ saved' = IF pc = "forceFinally"
                THEN Snapshot(fileMetadata, pendingDeletions, remoteChangesPendingForActiveFiles)
                ELSE saved
    /\ Returned
    /\ active' = active - 1
    /\ UNCHANGED <<worldVars, pendingFiles, fileMetadata, pendingDeletions,
                   recentlyPushedFiles, recentlyDeletedFromRemote, lastActiveFile,
                   remoteChangesPendingForActiveFiles, lastCall, hist>>
    /\ OtherFrame

\* Obsidian is closed and opened again while no handler runs: onload builds
\* a new syncState from the saved data (225-246, 1377-1401).
Restart ==
    /\ handler = "none"
    /\ hist.edits < MaxEdits
    /\ inProgress' = FALSE
    /\ pendingFiles' = {}
    /\ fileMetadata' = saved.fileMetadata
    /\ pendingDeletions' = saved.pendingDeletions
    /\ remoteChangesPendingForActiveFiles' = saved.remoteChangesPendingForActiveFiles
    /\ recentlyPushedFiles' = EmptyMap
    /\ recentlyDeletedFromRemote' = EmptyMap
    /\ lastActiveFile' = NoPath
    /\ activeFile' = NoPath
    /\ changesMade' = NoChanges
    /\ failed' = FALSE
    /\ hist' = Edited
    /\ UNCHANGED <<settings, vault, remote, listed, lagging, saved,
                   modal, pc, handler, syncType, localFiles, remoteFiles, conflicts,
                   filesToPush, filesToPull, todo, up, active, lastCall>>
    /\ OtherFrame

----------------------------------------------------------------------------
(* The engine with its environment                                          *)

SyncRunNext ==
    \/ processPendingDeletions
    \/ FetchRemoteStates
    \/ DetectWithoutRemote
    \/ DetectStep
    \/ ResolveStep
    \/ PlanPush
    \/ UploadStart
    \/ UploadFetch
    \/ UploadPut
    \/ PlanPull
    \/ DeleteLocalStep
    \/ PullStep
    \/ Complete
    \/ Finally

PromptNext ==
    \/ ResolveChoose
    \/ UploadChoose

\* Every step a handler that holds the guard can take.
RunNext == SyncRunNext \/ PromptNext \/ ForceFinally

----------------------------------------------------------------------------
(* The guard: the three handlers invoked at any time, on one document,      *)
(* while the user and another client edit it and remote calls fail; the     *)
(* conflict policy prompts ('ask') or resolves by itself ('local').         *)

GuardDocs == { <<"x.md">> }

InitGuard ==
    /\ InitSync({<<>>}, {"ask", "local"}, {FALSE}, GuardDocs,
                [NoHistory EXCEPT !.edits = MaxEdits - 1])
    /\ MergeIdle
    /\ DelIdle
    /\ ReqIdle
    /\ MapIdle

NextGuard ==
    \/ RunNext
    \/ CallRefused
    \/ SyncStart
    \/ ForcePullStart
    \/ ForcePushStart
    \/ LocalModify
    \/ RemoteWrite
    \/ ModalDismiss

SpecGuard == InitGuard /\ [][NextGuard]_vars

\* C1 (run guard): at every moment at most one of syncWithGitHub,
\* forcePullFromGitHub and forcePushToGitHub is between inProgress = true and
\* its finally block, and an invocation that arrives while inProgress is true
\* returns having changed neither the metadata, pendingFiles, pendingDeletions,
\* the two grace-period caches nor the repository, and having moved no handler.
RunGuard ==
    /\ [](active <= 1)
    /\ [][hist'.refusals # hist.refusals =>
             UNCHANGED <<fileMetadata, pendingFiles, pendingDeletions, recentlyPushedFiles,
                         recentlyDeletedFromRemote, remote, listed, vault, inProgress,
                         runVars>>]_vars

RunGuardWitness ==
    /\ lastCall[2] = "refused"
    /\ active = 1
    /\ pc \in {"uploadPut", "pull", "detect"}

----------------------------------------------------------------------------
(* Runs of syncWithGitHub on two documents, one remote call at most failing. *)
(* The scheduler resumes a handler whenever the call it awaits has          *)
(* returned; whether a button of a prompt is pressed is up to the user.     *)

InitRun ==
    /\ InitSync({<<>>}, Policies, {FALSE}, LocalPathsU, [NoHistory EXCEPT !.edits = MaxEdits])
    /\ MergeIdle
    /\ DelIdle
    /\ ReqIdle
    /\ MapIdle

NextRun ==
    \/ SyncRunNext
    \/ PromptNext
    \/ SyncStart
    \/ ModalDismiss

SpecRun == InitRun /\ [][NextRun]_vars

\* The same on one document, with the scheduler.
InitPrompt ==
    /\ InitSync({<<>>}, Policies, {FALSE}, GuardDocs, [NoHistory EXCEPT !.edits = MaxEdits])
    /\ MergeIdle
    /\ DelIdle
    /\ ReqIdle
    /\ MapIdle

SpecPrompt == InitPrompt /\ [][NextRun]_vars /\ WF_vars(SyncRunNext \/ PromptNext)

\* C2 (guard release on failure): whenever no handler runs inProgress is
\* false; an exception in a run of syncWithGitHub leads to its finally block;
\* and the step by which a run ends, normally or after an exception, leaves
\* inProgress false and the saved data equal to the state.
GuardRelease ==
    /\ [](handler = "none" => ~inProgress)
    /\ [](handler = "sync" /\ failed => pc = "finally")
    /\ [][handler = "sync" /\ handler' = "none" =>
             /\ ~inProgress'
             /\ saved' = Snapshot(fileMetadata', pendingDeletions',
                                  remoteChangesPendingForActiveFiles')]_vars

\* A run has ended by an exception raised after a change that was not saved.
GuardReleaseWitness ==
    /\ handler = "none"
    /\ failed
    /\ ~inProgress
    /\ \E p \in DOMAIN fileMetadata :
          /\ fileMetadata[p].githubBlobSha = BlobSha(T2)
          /\ fileMetadata[p].localChecksum = calculateChecksum(T1)

\* C3 (run termination): every run that starts eventually ends and releases
\* the guard, under every conflict policy and whatever the user does with a
\* conflict prompt.
RunTerminates == inProgress ~> ~inProgress

----------------------------------------------------------------------------
(* Successive runs of syncWithGitHub whose remote calls all succeed, under  *)
(* both sync paths, with nothing changed by anybody else.                   *)

InitTwice ==
    /\ InitSync(SyncPaths, Policies, {FALSE}, LocalPathsU,
                [NoHistory EXCEPT !.edits = MaxEdits, !.failures = MaxFailures])
    /\ MergeIdle
    /\ DelIdle
    /\ ReqIdle
    /\ MapIdle

NextTwice ==
    \/ SyncRunNext
    \/ PromptNext
    \/ SyncStart

SpecTwice == InitTwice /\ [][NextTwice]_vars

\* C4 (idempotence): when two runs have completed in succession without an
\* exception and nothing was changed locally or remotely during or between
\* them, the second has pushed, pulled and deleted nothing.
Idempotence == pc = "idle" /\ hist.quiet = 2 => changesMade = NoChanges

----------------------------------------------------------------------------
(* A session on one sync path: the user creates, edits, deletes and renames *)
(* files and restarts Obsidian between runs whose remote calls succeed.     *)

InitSession ==
    /\ InitSync({<<>>}, {"local", "ask"}, {FALSE}, GuardDocs,
                [NoHistory EXCEPT !.failures = MaxFailures])
    /\ MergeIdle
    /\ DelIdle
    /\ ReqIdle
    /\ MapIdle

NextSession ==
    \/ processPendingDeletions
    \/ FetchRemoteStates
    \/ DetectStep
    \/ ResolveStep
    \/ PlanPush
    \/ UploadStart
    \/ UploadFetch
    \/ UploadPut
    \/ PlanPull
    \/ DeleteLocalStep
    \/ PullStep
    \/ Complete
    \/ Finally
    \/ PromptNext
    \/ SyncStart
    \/ LocalModify
    \/ LocalCreate
    \/ LocalDelete
    \/ LocalRename
    \/ Restart

SpecSession == InitSession /\ [][NextSession]_vars

\* The latest run of syncWithGitHub has completed without an exception and
\* nothing was changed by anybody else since it started.
RunSucceeded ==
    /\ pc = "idle"
    /\ lastCall = <<"sync", "started">>
    /\ ~failed
    /\ ~hist.dirty

\* C5 (convergence): a run that starts with a document changed only locally
\* ends with the local content hash equal to the recorded remote content hash
\* and with the branch holding the local content.
Convergence ==
    RunSucceeded =>
       \A p \in hist.localOnly :
          /\ vault[p] # NoText
          /\ Has(fileMetadata, p)
          /\ calculateChecksum(vault[p]) = fileMetadata[p].remoteContentChecksum
          /\ remote[getRemotePath(settings.syncPath, p)] = vault[p]

\* C10 (new local document): a run that starts with a new local document of
\* content A reports it as pushed, leaves the branch holding A, and leaves
\* metadata with the revision id of A and both hashes equal to hash(A).
NewDocumentPushed ==
    RunSucceeded =>
       \A p \in DOMAIN hist.newLocal :
          /\ p \in changesMade.pushed
          /\ remote[getRemotePath(settings.syncPath, p)] = hist.newLocal[p]
          /\ Has(fileMetadata, p)
          /\ fileMetadata[p] = Metadata(BlobSha(hist.newLocal[p]),
                                        calculateChecksum(hist.newLocal[p]),
                                        calculateChecksum(hist.newLocal[p]))

NewDocumentPushedWitness ==
    /\ RunSucceeded
    /\ \E p \in DOMAIN hist.newLocal : p \in changesMade.pushed /\ Has(saved.fileMetadata, p)

----------------------------------------------------------------------------
(* One document whose listing is exact: runs of syncWithGitHub whose remote *)
(* calls succeed; between them time passes and the user and another client  *)
(* edit the document.                                                       *)

InitConflict ==
    /\ InitSync({<<>>}, {"local", "ask"}, {FALSE}, GuardDocs,
                [NoHistory EXCEPT !.edits = MaxEdits - 2, !.failures = MaxFailures])
    /\ MergeIdle
    /\ DelIdle
    /\ ReqIdle
    /\ MapIdle

NextConflict ==
    \/ processPendingDeletions
    \/ FetchRemoteStates
    \/ DetectStep
    \/ ResolveStep
    \/ PlanPush
    \/ UploadStart
    \/ UploadFetch
    \/ UploadPut
    \/ PlanPull
    \/ DeleteLocalStep
    \/ PullStep
    \/ Complete
    \/ Finally
    \/ PromptNext
    \/ SyncStart
    \/ handler = "none" /\ LocalModify
    \/ handler = "none" /\ RemoteWrite
    \/ handler = "none" /\ Tick

SpecConflict == InitConflict /\ [][NextConflict]_vars

\* C6 (conflict detection): a document in a three-way difference is
\* classified as a conflict and entered in the conflict set, never classified
\* as a push or a pull.
ConflictDetected == \A d \in hist.detected : d.class = "conflict"

----------------------------------------------------------------------------
(* One document behind a listing that lags: runs of syncWithGitHub and of   *)
(* forcePushToGitHub whose remote calls succeed, while time passes.         *)

InitGrace ==
    /\ InitSync({<<>>}, Policies, {TRUE}, GuardDocs,
                [NoHistory EXCEPT !.edits = MaxEdits, !.failures = MaxFailures])
    /\ MergeIdle
    /\ DelIdle
    /\ ReqIdle
    /\ MapIdle

NextGrace ==
    \/ processPendingDeletions
    \/ FetchRemoteStates
    \/ DetectStep
    \/ ResolveStep
    \/ PlanPush
    \/ UploadStart
    \/ UploadFetch
    \/ UploadPut
    \/ PlanPull
    \/ DeleteLocalStep
    \/ PullStep
    \/ Complete
    \/ Finally
    \/ PromptNext
    \/ SyncStart
    \/ ForcePushStart
    \/ ForceFinally
    \/ ListingCatchesUp
    \/ Tick

SpecGrace == InitGrace /\ [][NextGrace]_vars

\* C7 (grace period): a document uploaded less than 90 seconds ago that the
\* listing does not yet show as uploaded is not classified delete-local or
\* conflict, and is not pulled.
GracePeriod == hist.graced = {}

----------------------------------------------------------------------------
(* The same with the user also deleting the document between runs.          *)

NextRemote ==
    \/ NextConflict
    \/ LocalDelete

SpecRemote == InitConflict /\ [][NextRemote]_vars

\* C11 (new remote document): a run that starts with a document the branch
\* holds with content B and the vault does not hold, no deletion of it being
\* pending, reports it as pulled and leaves the vault holding B, metadata with
\* the revision id of B and both hashes equal to hash(B), and the path out of
\* pendingFiles.
NewDocumentPulled ==
    RunSucceeded =>
       \A p \in DOMAIN hist.newRemote :
          /\ p \in changesMade.pulled
          /\ vault[p] = hist.newRemote[p]
          /\ Has(fileMetadata, p)
          /\ fileMetadata[p] = Metadata(BlobSha(hist.newRemote[p]),
                                        calculateChecksum(hist.newRemote[p]),
                                        calculateChecksum(hist.newRemote[p]))
          /\ p \notin pendingFiles

----------------------------------------------------------------------------
(* Pushes of one document by syncWithGitHub and by forcePushToGitHub while  *)
(* another client writes to the document between the requests of uploadFile *)
(* and one remote call at most fails.                                       *)

InitPush ==
    /\ InitSync({<<>>}, {"local", "ask"}, {FALSE}, GuardDocs, NoHistory)
    /\ MergeIdle
    /\ DelIdle
    /\ ReqIdle
    /\ MapIdle

\* Another client commits to the file that uploadFile is working on.
RemoteWriteDuringUpload ==
    /\ pc \in {"uploadFetch", "uploadAsk", "uploadPut"}
    /\ RemoteWrite
    /\ \A r \in RemotePathsU :
          r # getRemotePath(settings.syncPath, up.path) => remote'[r] = remote[r]

NextPush ==
    \/ RunNext
    \/ SyncStart
    \/ ForcePushStart
    \/ RemoteWriteDuringUpload

SpecPush == InitPush /\ [][NextPush]_vars

\* The step is the PUT of uploadFile and the endpoint accepts it.
PutSucceeds ==
    /\ pc = "uploadPut"
    /\ pc' # "uploadPut"
    /\ hist'.failures = hist.failures
    /\ PutStatus(remote[getRemotePath(settings.syncPath, up.path)], up.currentRemoteSha)
          \in {200, 201}
    /\ remote'[getRemotePath(settings.syncPath, up.path)] = up.contentToPush

----------------------------------------------------------------------------
(* One document edited by the user and by another client between runs that  *)
(* nobody asked for.                                                        *)

NextAutomated ==
    \/ processPendingDeletions
    \/ FetchRemoteStates
    \/ DetectStep
    \/ ResolveStep
    \/ PlanPush
    \/ UploadStart
    \/ UploadFetch
    \/ UploadPut
    \/ PlanPull
    \/ DeleteLocalStep
    \/ PullStep
    \/ Complete
    \/ Finally
    \/ PromptNext
    \/ AutomatedStart
    \/ handler = "none" /\ LocalModify
    \/ handler = "none" /\ RemoteWrite
    \/ handler = "none" /\ Tick

SpecAutomated == InitConflict /\ [][NextAutomated]_vars

\* C15 (automated runs never block on human input): a run of an automated
\* sync type never has the conflict prompt open, neither while it resolves
\* conflicts nor while it pushes.
AutomatedNeverPrompts ==
    handler = "sync" /\ syncType \in AutomatedSyncTypes => modal = "closed"

----------------------------------------------------------------------------
(* Failures met by one document of a run of syncWithGitHub on two documents *)

\* detectConflicts is at a document it classifies as a conflict (888) and the
\* fetch of the remote content (890-892) fails.
ConflictFetchFails ==
    /\ pc = "detect"
    /\ remoteFiles.ok
    /\ todo # {}
    /\ Classify(FirstOf(todo)) = "conflict"
    /\ hist'.failures # hist.failures

\* C16 (conflict-fetch failure is per document): when the fetch of the remote
\* content of a document in conflict fails, the run does not fail: it goes on
\* with the next document or with the resolutions, the failing document
\* having no resolution in this run.
ConflictFetchPerDocument ==
    [][ConflictFetchFails =>
          /\ ~failed'
          /\ pc' \in {"detect", "resolve"}
          /\ ~Has(conflicts', FirstOf(todo))]_vars

----------------------------------------------------------------------------
(* One document that the user opens and closes at any moment, edited by the *)
(* user and by another client between runs of which one remote call at     *)
(* most fails; a conflict is resolved by the policy, without a prompt.      *)

InitActive ==
    /\ InitSync({<<>>}, {"local", "remote"}, {FALSE}, GuardDocs,
                [NoHistory EXCEPT !.edits = MaxEdits - 2])
    /\ MergeIdle
    /\ DelIdle
    /\ ReqIdle
    /\ MapIdle

NextActive ==
    \/ SyncRunNext
    \/ SyncStart
    \/ ActiveLeafChange
    \/ handler = "none" /\ LocalModify
    \/ handler = "none" /\ RemoteWrite

SpecActive == InitActive /\ [][NextActive]_vars

\* C17 (active-document veto): no step of a run gives the document that is
\* open, and stays open, the content the branch holds for it.
ActiveVeto ==
    [][/\ handler = "sync"
       /\ hist'.edits = hist.edits
       /\ activeFile # NoPath
       /\ activeFile' = activeFile
       /\ vault'[activeFile] # vault[activeFile]
       => vault'[activeFile] # remote[getRemotePath(settings.syncPath, activeFile)]]_vars

\* The content whose git blob id is sha.
ContentOf(sha) == Tail(sha)

\* C19 (metadata cache invariant): whenever no handler runs, each metadata
\* record with a revision id has as remoteContentChecksum the hash of the
\* content that carries this revision id.
MetadataCache ==
    handler = "none" =>
       \A p \in DOMAIN fileMetadata :
          fileMetadata[p].githubBlobSha # NoText =>
             fileMetadata[p].remoteContentChecksum
                = calculateChecksum(ContentOf(fileMetadata[p].githubBlobSha))

----------------------------------------------------------------------------
(* Runs on two documents of which one remote call at most fails, the user   *)
(* deleting files between runs and while a run deletes files locally.       *)

InitPartial ==
    /\ InitSync({<<>>}, {"local", "remote"}, {FALSE}, LocalPathsU,
                [NoHistory EXCEPT !.edits = MaxEdits - 2])
    /\ MergeIdle
    /\ DelIdle
    /\ ReqIdle
    /\ MapIdle

NextPartial ==
    \/ SyncRunNext
    \/ SyncStart
    \/ LocalDelete
    \/ pc = "deleteLocal" /\ FileDeletedByUser

SpecPartial == InitPartial /\ [][NextPartial]_vars

\* The step is a download that brings the remote content into the vault.
PullSucceeds ==
    /\ pc = "pull"
    /\ hist'.failures = hist.failures
    /\ remote[filesToPull[FirstOf(todo)].path] # NoText
    /\ vault'[getLocalPath(settings.syncPath, filesToPull[FirstOf(todo)].path)]
          = remote[filesToPull[FirstOf(todo)].path]

\* The step of a run removes the file from the vault.
DeleteLocalSucceeds ==
    /\ pc = "deleteLocal"
    /\ hist'.edits = hist.edits
    /\ vault[FirstOf(todo)] # NoText
    /\ vault'[FirstOf(todo)] = NoText

\* C20 (partial failure): no step of the push, pull, local-deletion and
\* remote-deletion phases makes the run fail; the step that ends a document's
\* operation, successfully or not, passes to the next document scheduled for
\* the phase; and a path is counted in a phase exactly when its operation
\* succeeded.
PartialFailure ==
    [][/\ pc \in {"deletions", "push", "uploadFetch", "uploadPut", "deleteLocal", "pull"}
          => ~failed'
       /\ pc = "deletions" =>
             /\ pc' = "fetch1"
             /\ changesMade'.deletedRemotely =
                   DOMAIN pendingDeletions \ DOMAIN pendingDeletions'
             /\ \A q \in changesMade'.deletedRemotely :
                   remote'[getRemotePath(settings.syncPath, q)] = NoText
       /\ pc \in {"push", "uploadFetch", "uploadPut"} =>
             /\ changesMade'.pushed =
                   changesMade.pushed \cup (IF PutSucceeds THEN {up.path} ELSE {})
             /\ todo' # todo =>
                   /\ todo' = todo \ {FirstOf(todo)}
                   /\ pc' = (IF todo' # {} THEN "push" ELSE "fetch2")
       /\ pc = "deleteLocal" /\ hist'.edits = hist.edits =>
             /\ changesMade'.deletedLocally =
                   changesMade.deletedLocally
                      \cup (IF DeleteLocalSucceeds THEN {FirstOf(todo)} ELSE {})
             /\ todo \ {FirstOf(todo)} # {} =>
                   todo' = todo \ {FirstOf(todo)} /\ pc' = "deleteLocal"
       /\ pc = "pull" =>
             /\ changesMade'.pulled =
                   changesMade.pulled \cup (IF PullSucceeds THEN {FirstOf(todo)} ELSE {})
             /\ todo' = todo \ {FirstOf(todo)}
             /\ pc' = (IF todo' # {} THEN "pull" ELSE "complete")]_vars

\* A run has come to its end without an exception: of two pushes scheduled
\* one failed and the other is counted.
PartialFailureWitness ==
    /\ handler = "sync"
    /\ pc = "finally"
    /\ ~failed
    /\ hist.failures = 1
    /\ filesToPush = LocalPathsU
    /\ Cardinality(changesMade.pushed) = 1
    /\ Cardinality(pendingFiles) = 1

----------------------------------------------------------------------------
(* What a run may delete from the vault                                     *)

\* The step of a run deletes the local file at path.
RunDeletesLocally(path) ==
    /\ handler = "sync"
    /\ pc = "deleteLocal"
    /\ hist'.edits = hist.edits
    /\ vault[path] # NoText
    /\ vault'[path] = NoText

\* The local content at path is not the one recorded as the remote content.
hasUnsyncedEdits(path) ==
    \/ ~Has(fileMetadata, path)
    \/ calculateChecksum(vault[path]) # fileMetadata[path].remoteContentChecksum

\* C21 (no loss of unsynchronized local edits by local deletion): a run never
\* deletes a local document whose content hash differs from the recorded
\* remoteContentChecksum.
NoLossByLocalDeletion ==
    [][\A p \in LocalPathsU : RunDeletesLocally(p) => ~hasUnsyncedEdits(p)]_vars

\* C22 (rename does not lose the document): a document renamed locally, with
\* the content it had then, is not deleted locally by a run as long as no
\* upload of its new path has succeeded.
RenameKeepsDocument ==
    [][\A p \in DOMAIN hist.renamed : ~RunDeletesLocally(p)]_vars

----------------------------------------------------------------------------
(* What downloadFile may overwrite                                          *)

\* The step is a downloadFile call, of a run (1197) or of the
\* 'active-leaf-change' handler (464), that replaces the content of the local
\* file at path.
DownloadOverwrites(path) ==
    /\ vault[path] # NoText
    /\ vault'[path] # NoText
    /\ vault'[path] # vault[path]
    /\ \/ pc = "pull" /\ activeFile' = activeFile /\ hist'.edits = hist.edits
       \/ activeFile' # activeFile

\* C23 (a pull never silently overwrites local edits): downloadFile replaces
\* the content of a local document only when its hash is the recorded
\* remoteContentChecksum, or when the conflict policy chooses the remote
\* version.
PullKeepsLocalEdits ==
    [][\A p \in LocalPathsU :
          DownloadOverwrites(p) =>
             \/ ~hasUnsyncedEdits(p)
             \/ settings.conflictResolution = "remote"]_vars

----------------------------------------------------------------------------
(* The push of a document changed only locally                              *)

\* C24 (push of a local-only change): during a run that started with a
\* document changed only locally (remote revision equal to the recorded one),
\* no step modifies the local document and no prompt is opened for it,
\* whatever the conflict policy.
LocalOnlyPushUntouched ==
    [][\A p \in hist.localOnly :
          handler = "sync" =>
             /\ vault'[p] = vault[p]
             /\ (modal' = "open" /\ modal # "open") => up'.path # p]_vars

----------------------------------------------------------------------------
(* A push that failed                                                       *)

\* 875-911: a step of detectConflicts, with every remote call succeeding,
\* takes path out of pendingFiles.
DetectionDrops(path) ==
    /\ handler = "sync"
    /\ pc = "detect"
    /\ hist'.failures = hist.failures
    /\ hist'.edits = hist.edits
    /\ path \in pendingFiles
    /\ path \notin pendingFiles'

\* C25 (a failed push stays pending): a document whose latest push failed is
\* not dropped from pendingFiles by the detection of a later run while the
\* branch does not hold its local content.
FailedPushStaysPending ==
    [][\A p \in hist.pushFailed :
          DetectionDrops(p) =>
             remote[getRemotePath(settings.syncPath, p)] = vault[p]]_vars

----------------------------------------------------------------------------
(* Local deletions, with a listing that may lag and requests that may fail  *)

DeletionDocs == { <<"n", "/", "x.md">> }

InitDeletion ==
    /\ InitSync({<<>>}, {"local"}, BOOLEAN, DeletionDocs,
                [NoHistory EXCEPT !.edits = MaxEdits])
    /\ MergeIdle
    /\ DelIdle
    /\ ReqIdle
    /\ MapIdle

NextDeletion ==
    \/ SyncRunNext
    \/ SyncStart
    \/ handler = "none" /\ Tick
    \/ handler = "none" /\ ListingCatchesUp

SpecDeletion == InitDeletion /\ [][NextDeletion]_vars

----------------------------------------------------------------------------
(* A listing that is not complete                                           *)

\* C27 (an incomplete remote listing causes no deletion): a run deletes no
\* local document after a fetch of the remote states in which a listing
\* request, of the top level or of a sub-directory, failed.
IncompleteListingDeletesNothing ==
    [][\A p \in LocalPathsU : RunDeletesLocally(p) => ~hist.incomplete]_vars

----------------------------------------------------------------------------
(* A document deleted, created again and pushed                             *)

InitRecreate ==
    /\ InitSync({<<>>}, {"local"}, {FALSE}, GuardDocs,
                [NoHistory EXCEPT !.edits = MaxEdits - 2])
    /\ MergeIdle
    /\ DelIdle
    /\ ReqIdle
    /\ MapIdle

NextRecreate ==
    \/ SyncRunNext
    \/ SyncStart
    \/ handler = "none" /\ Tick
    \/ LocalDelete
    \/ LocalCreate

SpecRecreate == InitRecreate /\ [][NextRecreate]_vars

\* The branch holds the document at path, which this client uploaded after it
\* had deleted the path remotely, less than 120 seconds later.
pushedAfterRemoteDeletion(path) ==
    /\ remote[getRemotePath(settings.syncPath, path)] # NoText
    /\ Has(hist.pushed, path)
    /\ Has(recentlyDeletedFromRemote, path)
    /\ recentlyDeletedFromRemote[path] < AgeCap
    /\ hist.pushed[path] <= recentlyDeletedFromRemote[path]
    /\ ElapsedMs(recentlyDeletedFromRemote[path] - hist.pushed[path])
          < RECENTLY_DELETED_GRACE_PERIOD_MS

\* C28 (the delete grace window hides no live remote document): a document
\* created again and pushed within 120 seconds after the remote deletion of
\* its path is not deleted locally by a run while the branch holds it.
RecreatedDocumentKept ==
    [][\A p \in LocalPathsU :
          RunDeletesLocally(p) => ~pushedAfterRemoteDeletion(p)]_vars

----------------------------------------------------------------------------
(* Prompts for one document                                                 *)

\* 1996-1997: uploadFile, called by a run, opens the prompt for path.
UploadPrompts(path) ==
    /\ handler = "sync"
    /\ pc = "uploadFetch"
    /\ up.path = path
    /\ modal # "open"
    /\ modal' = "open"

\* 942-945: resolveConflicts has prompted for path in this run.
ResolverPrompted(path) ==
    /\ Has(conflicts, path)
    /\ settings.conflictResolution = "ask"
    /\ syncType \notin {"Real-time sync", "Save on Close Sync"}

\* C29 (one resolution per detected conflict): in a run under policy 'ask',
\* the push phase opens no prompt for a document for which the resolver phase
\* of the same run has already prompted.
OneResolutionPerConflict ==
    [][\A p \in LocalPathsU : UploadPrompts(p) => ~ResolverPrompted(p)]_vars

----------------------------------------------------------------------------
(* The resolution of one uploadFile call                                    *)

\* An attempt of uploadFile fetches the remote file while an earlier attempt
\* of the same call has decided a resolution.
LaterAttempt ==
    /\ pc = "uploadFetch"
    /\ up.chosenConflictResolution \in {"local", "remote", "merge"}
    /\ up' # NoUpload
    /\ hist'.edits = hist.edits

\* C30 (push-time resolution is decided once per push): an attempt of
\* uploadFile that follows one in which a resolution was decided opens no
\* prompt, keeps that resolution and, when the contents differ again, sends
\* what that resolution gives.
ResolutionDecidedOnce ==
    [][LaterAttempt =>
          /\ modal' = modal
          /\ pc' = "uploadPut"
          /\ up'.chosenConflictResolution = up.chosenConflictResolution
          /\ up'.remoteContentFromGitHub \notin {NoText, up.localContent} =>
                up'.contentToPush =
                   CASE up.chosenConflictResolution = "local" -> up.localContent
                     [] up.chosenConflictResolution = "remote" ->
                           up'.remoteContentFromGitHub
                     [] OTHER -> mergeContent(up.localContent,
                                              up'.remoteContentFromGitHub)]_vars

\* Under policy 'ask' a second attempt, after a 409, has found a difference
\* again and is about to send what the answer to the prompt gives.
ResolutionDecidedOnceWitness ==
    /\ settings.conflictResolution = "ask"
    /\ pc = "uploadPut"
    /\ up.currentAttempt >= 2
    /\ up.chosenConflictResolution \in {"local", "remote", "merge"}
    /\ up.remoteContentFromGitHub \notin {NoText, up.localContent}

----------------------------------------------------------------------------
(* What a successful push records                                           *)

\* C31 (push success updates metadata): after a PUT of uploadFile that
\* succeeded, the metadata of the document has the revision id of the content
\* the branch now holds, both hashes equal to the hash of the pushed content
\* and conflicted = false; in a run the path has left pendingFiles and entered
\* recentlyPushedFiles.
PushSuccessUpdatesMetadata ==
    [][PutSucceeds =>
          /\ Has(fileMetadata', up.path)
          /\ fileMetadata'[up.path].githubBlobSha
                = BlobSha(remote'[getRemotePath(settings.syncPath, up.path)])
          /\ fileMetadata'[up.path].localChecksum = calculateChecksum(up.contentToPush)
          /\ fileMetadata'[up.path].remoteContentChecksum
                = calculateChecksum(up.contentToPush)
          /\ fileMetadata'[up.path].conflicted = FALSE
          /\ handler = "sync" =>
                /\ up.path \notin pendingFiles'
                /\ Has(recentlyPushedFiles', up.path)
                /\ recentlyPushedFiles'[up.path] = 0]_vars

\* A run has just pushed a document: the branch holds its local content.
PushSuccessWitness ==
    /\ handler = "sync"
    /\ \E p \in changesMade.pushed :
          /\ Has(recentlyPushedFiles, p)
          /\ Has(fileMetadata, p)
          /\ fileMetadata[p].githubBlobSha
                = BlobSha(remote[getRemotePath(settings.syncPath, p)])
          /\ remote[getRemotePath(settings.syncPath, p)] = vault[p]
          /\ p \notin pendingFiles

----------------------------------------------------------------------------
(* Conflicts resolved to the remote version, the file of the conflict being *)
(* removed from the vault while the prompt is open.                         *)

InitKeepRemote ==
    /\ InitSync(SyncPaths, {"ask", "remote"}, {FALSE}, LocalPathsU,
                [NoHistory EXCEPT !.edits = MaxEdits - 1, !.failures = MaxFailures])
    /\ MergeIdle
    /\ DelIdle
    /\ ReqIdle
    /\ MapIdle

\* A file is deleted while resolveConflicts awaits askForResolution.
DeletedWhilePrompted ==
    /\ pc = "resolve"
    /\ modal = "open"
    /\ FileDeletedByUser

NextKeepRemote ==
    \/ SyncRunNext
    \/ PromptNext
    \/ SyncStart
    \/ DeletedWhilePrompted

SpecKeepRemote == InitKeepRemote /\ [][NextKeepRemote]_vars

\* 976-1009: the step applies resolution 'remote' to the conflict of path:
\* by policy, or by the button of the prompt (the only one after which a file
\* holds the fetched remote content it did not hold before).
KeepRemoteApplied(path) ==
    /\ handler = "sync"
    /\ pc = "resolve"
    /\ todo # {}
    /\ path = FirstOf(todo)
    /\ todo' = todo \ {path}
    /\ \/ settings.conflictResolution = "remote"
       \/ /\ modal = "open"
          /\ \E q \in LocalPathsU :
                /\ vault'[q] # vault[q]
                /\ vault'[q] = conflicts[path].remote.content

\* C32 (keep-remote resolution): applying 'remote' to a conflicted path leaves
\* the local document at that path with the fetched remote content, its
\* metadata with both hashes of that content and the remote revision id, and
\* the path out of pendingFiles; under policy 'remote' the run uploads no
\* document of its conflicts.
KeepRemoteResolution ==
    [][/\ \A p \in LocalPathsU :
             KeepRemoteApplied(p) =>
                /\ vault'[p] = conflicts[p].remote.content
                /\ Has(fileMetadata', p)
                /\ fileMetadata'[p].localChecksum
                      = calculateChecksum(conflicts[p].remote.content)
                /\ fileMetadata'[p].remoteContentChecksum
                      = calculateChecksum(conflicts[p].remote.content)
                /\ fileMetadata'[p].githubBlobSha = conflicts[p].remote.sha
                /\ p \notin pendingFiles'
       /\ /\ handler = "sync"
          /\ settings.conflictResolution = "remote"
          /\ pc = "push"
          /\ pc' = "uploadFetch"
          => ~Has(conflicts, up'.path)]_vars

----------------------------------------------------------------------------
(* The shape of a merge                                                     *)

\* The lines of a merged text that are not conflict markers (nor the empty
\* string that follows the final line feed).
ContentLines(text) ==
    SelectSeq(text, LAMBDA l : l \notin {LocalMarker, MiddleMarker, RemoteMarker, ""})

\* C33 (merge output shape): when the remote content has a line the local
\* content lacks, the lines of the result between and around the markers are
\* the local lines followed by exactly the remote lines absent from the local
\* content; when it has none, the result is the local content.
MergeOutputShape ==
    mPc = "returned" =>
       IF \E i \in 1..Len(mRemote) : mRemote[i] \notin Range(mLocal)
       THEN ContentLines(mOut)
               = mLocal \o SelectSeq(mRemote, LAMBDA l : l \notin Range(mLocal))
       ELSE mOut = mLocal

----------------------------------------------------------------------------
(* Detection without the remote states                                      *)

\* The step is detectConflicts called with remoteFiles === null.
DegradedDetection ==
    /\ handler = "sync"
    /\ pc = "detect"
    /\ ~remoteFiles.ok
    /\ pc' # "detect"

\* C34 (degraded detection): without the remote states detectConflicts
\* returns no conflict, adds to pendingFiles exactly the local files without
\* metadata or whose hash is not the recorded remoteContentChecksum, removes
\* nothing from pendingFiles and leaves fileMetadata, pendingDeletions and
\* remoteChangesPendingForActiveFiles unchanged.
DegradedDetectionFrame ==
    [][DegradedDetection =>
          /\ conflicts' = EmptyMap
          /\ pendingFiles \subseteq pendingFiles'
          /\ pendingFiles' \ pendingFiles
                = {q \in DOMAIN localFiles \ pendingFiles :
                      \/ ~Has(fileMetadata, q)
                      \/ calculateChecksum(localFiles[q])
                            # fileMetadata[q].remoteContentChecksum}
          /\ UNCHANGED <<fileMetadata, pendingDeletions,
                         remoteChangesPendingForActiveFiles>>]_vars

\* The listing failed and detection has queued a document that has metadata
\* and a changed hash, next to one it left alone.
DegradedDetectionWitness ==
    /\ handler = "sync"
    /\ pc = "resolve"
    /\ ~remoteFiles.ok
    /\ conflicts = EmptyMap
    /\ \E q \in pendingFiles :
          /\ Has(fileMetadata, q)
          /\ Has(localFiles, q)
          /\ calculateChecksum(localFiles[q]) # fileMetadata[q].remoteContentChecksum
    /\ \E q \in DOMAIN localFiles : q \notin pendingFiles

----------------------------------------------------------------------------
(* The pending deletions of a run                                           *)

\* The step is processPendingDeletions with entries to process.
DeletionsProcessed ==
    /\ handler = "sync"
    /\ pc = "deletions"
    /\ pc' # "deletions"
    /\ DOMAIN pendingDeletions # {}

\* C35 (pending-deletion processing): an entry leaves pendingDeletions
\* exactly when its path is recorded in recentlyDeletedFromRemote by this
\* step, and then the branch no longer holds the path; an entry whose
\* deletion failed stays as it was, with the branch and
\* recentlyDeletedFromRemote unchanged for its path; entries stay only when
\* a call failed; and the run goes on to the fetch of the remote states.
PendingDeletionProcessing ==
    [][DeletionsProcessed =>
          /\ pc' = "fetch1"
          /\ DOMAIN pendingDeletions' \subseteq DOMAIN pendingDeletions
          /\ \A q \in DOMAIN pendingDeletions :
                IF Has(pendingDeletions', q)
                THEN /\ pendingDeletions'[q] = pendingDeletions[q]
                     /\ hist'.failures > hist.failures
                     /\ remote'[getRemotePath(settings.syncPath, q)]
                           = remote[getRemotePath(settings.syncPath, q)]
                     /\ Has(recentlyDeletedFromRemote', q)
                           = Has(recentlyDeletedFromRemote, q)
                     /\ Has(recentlyDeletedFromRemote, q) =>
                           recentlyDeletedFromRemote'[q] = recentlyDeletedFromRemote[q]
                     /\ q \notin changesMade'.deletedRemotely
                ELSE /\ Has(recentlyDeletedFromRemote', q)
                     /\ recentlyDeletedFromRemote'[q] = 0
                     /\ remote'[getRemotePath(settings.syncPath, q)] = NoText
                     /\ q \in changesMade'.deletedRemotely]_vars

\* A run has processed two pending deletions: one failed and stays pending,
\* the other is recorded as recently deleted; the run has gone on.
PendingDeletionWitness ==
    /\ handler = "sync"
    /\ pc = "fetch1"
    /\ DOMAIN pendingDeletions # {}
    /\ changesMade.deletedRemotely # {}
    /\ \A q \in changesMade.deletedRemotely :
          Has(recentlyDeletedFromRemote, q) /\ ~Has(pendingDeletions, q)

----------------------------------------------------------------------------
(* A document deleted by the user while runs pull                           *)

InitPending ==
    /\ InitSync({<<>>}, {"local", "remote"}, {FALSE}, GuardDocs,
                [NoHistory EXCEPT !.edits = MaxEdits - 2])
    /\ MergeIdle
    /\ DelIdle
    /\ ReqIdle
    /\ MapIdle

\* 547-566 while 1324 awaits the content of a planned pull.
DeletedWhilePulling ==
    /\ pc = "pull"
    /\ handler = "sync"
    /\ FileDeletedByUser

NextPending ==
    \/ SyncRunNext
    \/ SyncStart
    \/ LocalDelete
    \/ handler = "none" /\ RemoteWrite
    \/ handler = "none" /\ Tick
    \/ DeletedWhilePulling

SpecPending == InitPending /\ [][NextPending]_vars

\* A step of a run creates the local document at path.
RunCreates(path) ==
    /\ handler = "sync"
    /\ hist'.edits = hist.edits
    /\ vault[path] = NoText
    /\ vault'[path] # NoText

\* C36 (a locally deleted document is not pulled back): no step of a run
\* creates a local document whose path is in pendingDeletions or was deleted
\* from the branch less than 120 seconds ago.
DeletedNotPulledBack ==
    [][\A q \in LocalPathsU :
          RunCreates(q) =>
             /\ ~Has(pendingDeletions, q)
             /\ ~(/\ Has(recentlyDeletedFromRemote, q)
                  /\ ElapsedMs(recentlyDeletedFromRemote[q])
                        < RECENTLY_DELETED_GRACE_PERIOD_MS)]_vars

----------------------------------------------------------------------------
(* The phases of a run                                                      *)

\* The phase of syncWithGitHub (713-729) and performSync (1060-1204) a run is
\* in: pending deletions, first fetch, detection and resolution, pushes,
\* re-fetch, plan, local deletions, pulls, end.
RunPhase(at) ==
    CASE at = "deletions" -> 1
      [] at = "fetch1" -> 2
      [] at \in {"detect", "resolve"} -> 3
      [] at \in {"push", "uploadFetch", "uploadAsk", "uploadPut"} -> 4
      [] at = "fetch2" -> 5
      [] at = "plan" -> 6
      [] at = "deleteLocal" -> 7
      [] at = "pull" -> 8
      [] OTHER -> 9

\* C37 (phase ordering within a run): a run never goes back to an earlier
\* phase; it removes documents from the branch only in the phase of the
\* pending deletions, which ends before the first fetch; it fetches the
\* remote tree only in the two fetch phases; detection changes the conflicts
\* only before the pushes; it writes the branch only in the push phase; the
\* pulls and local deletions are planned only on leaving the re-fetch, from a
\* tree that holds what the run has pushed when no listing request failed,
\* and executed only afterwards.
PhaseOrdering ==
    [][(handler = "sync" /\ handler' = "sync" /\ hist'.edits = hist.edits) =>
          /\ RunPhase(pc') >= RunPhase(pc)
          /\ (\E r \in RemotePathsU : remote[r] # NoText /\ remote'[r] = NoText)
                => pc = "deletions"
          /\ remoteFiles' # remoteFiles => pc \in {"fetch1", "fetch2"}
          /\ pc' = "detect" => pc \in {"fetch1", "detect"}
          /\ conflicts' # conflicts => pc \in {"detect", "resolve"}
          /\ (\E r \in RemotePathsU : remote'[r] # remote[r] /\ remote'[r] # NoText)
                => pc = "uploadPut"
          /\ pc' = "push" => pc \in {"resolve", "push", "uploadFetch", "uploadAsk", "uploadPut"}
          /\ pc' = "plan" => pc = "fetch2"
          /\ (pc = "plan" /\ remoteFiles.ok /\ hist.failures = 0) =>
                \A q \in changesMade.pushed :
                   /\ Has(remoteFiles.files, q)
                   /\ remoteFiles.files[q].sha
                         = BlobSha(remote[getRemotePath(settings.syncPath, q)])
          /\ filesToPull' # filesToPull => pc = "plan"
          /\ changesMade'.deletedLocally # changesMade.deletedLocally
                => pc = "deleteLocal"
          /\ changesMade'.pulled # changesMade.pulled => pc = "pull"]_vars

\* A run that has pushed one document and pulled another one is ending.
PhaseOrderingWitness ==
    /\ handler = "sync"
    /\ pc = "complete"
    /\ changesMade.pushed # {}
    /\ changesMade.pulled # {}

----------------------------------------------------------------------------
(* Pulls and the guard                                                      *)

\* The 'active-leaf-change' handler has downloaded the document left behind
\* (459-465): the step changes the active file and the file or its metadata.
EditorPull ==
    /\ activeFile' # activeFile
    /\ lastActiveFile' = activeFile'
    /\ lastActiveFile \in remoteChangesPendingForActiveFiles
    /\ \/ vault'[lastActiveFile] # vault[lastActiveFile]
       \/ fileMetadata' # fileMetadata

\* C38 (pulls are serialized with runs): the pull of a deferred document by
\* the 'active-leaf-change' handler writes the local store and the metadata
\* only while no run, force pull or force push is in progress.
PullsSerialized ==
    [][EditorPull => ~inProgress /\ handler = "none"]_vars

----------------------------------------------------------------------------
(* Deferred pulls under runs that keep being triggered                      *)

InitDeferred ==
    /\ InitSync({<<>>}, {"local"}, {FALSE}, GuardDocs,
                [NoHistory EXCEPT !.edits = MaxEdits - 1])
    /\ MergeIdle
    /\ DelIdle
    /\ ReqIdle
    /\ MapIdle

NextDeferred ==
    \/ SyncRunNext
    \/ SyncStart
    \/ ActiveLeafChange
    \/ handler = "none" /\ LocalModify

\* Runs keep being triggered and every run goes on to its end; remote calls
\* fail MaxFailures times at most.
SpecDeferred ==
    /\ InitDeferred
    /\ [][NextDeferred]_vars
    /\ WF_vars(SyncStart)
    /\ WF_vars(SyncRunNext)

\* C39 (a deferred pull is eventually settled): a path that is in
\* remoteChangesPendingForActiveFiles while its document is not the active
\* one is eventually removed from the set, or its document becomes the active
\* one again.
DeferredPullSettled ==
    \A q \in LocalPathsU :
       (q \in remoteChangesPendingForActiveFiles /\ activeFile # q)
          ~> (q \notin remoteChangesPendingForActiveFiles \/ activeFile = q)

----------------------------------------------------------------------------
(* Tracking and the path mapper                                             *)

\* C40 (tracking agrees with the path mapper): the local path getLocalPath
\* gives for a Markdown document listed under the sync path is one that
\* shouldSyncFile and shouldSyncPath accept, and a local path they accept is
\* mapped by getRemotePath to a remote path under the sync path that
\* getLocalPath maps back to it.
TrackingAgreesWithMapper ==
    /\ (/\ mapPc \in {"there", "back"}
        /\ mapIn.side = "remote"
        /\ isMarkdownFile(mapIn.path))
          => /\ shouldSyncFile(mapIn.syncPath, mapOut.there)
             /\ shouldSyncPath(mapIn.syncPath, mapOut.there)
    /\ (/\ mapPc = "back"
        /\ mapIn.side = "local"
        /\ shouldSyncFile(mapIn.syncPath, mapIn.path))
          => /\ UnderSyncPath(mapIn.syncPath, mapOut.there)
             /\ mapOut.back = mapIn.path

====
